---- MODULE Spec2Model ----
(***************************************************************************)
(* Cross-document financial consistency checker.                           *)
(*                                                                         *)
(* The model covers the session controller (App), the upload screen        *)
(* (DocumentUpload, both versions), the document analysis aggregator       *)
(* (AnalysisEngine, both versions), the figure extractor and the           *)
(* cross-document comparator (CrossCheckReport / generateComparisons),     *)
(* the exports of the report screen, and the second analysis component of  *)
(* AnalysisEngine.tsx (AnalysisDashboard) with the table DiscrepancyReport *)
(* builds from its report.                                                 *)
(*                                                                         *)
(* Specifications                                                          *)
(*   - Spec, FairSpec: upload screen, App and the engine (both versions);  *)
(*   - DashboardSpec: upload screen and AnalysisDashboard;                 *)
(*   - RequestSpec: Spec with handleStartAnalysis also called while the    *)
(*     upload screen does not render its button;                           *)
(*   - ReportSpec: the report screen over any list of one to               *)
(*     MaxReportDocs analyses the engine can produce;                      *)
(*   - WideReportSpec: the report screen over documents with up to twelve  *)
(*     figures each, any number of them in disagreement;                   *)
(*   - ExtractorSpec: extractFinancialFigures applied to texts with years  *)
(*     at chosen distances before and after a labelled figure.             *)
(*                                                                         *)
(* Representation choices                                                  *)
(*   - a file name is the sequence of its dot-separated parts, so that     *)
(*     name.toLowerCase().split('.').pop() is Lower(Last(name));           *)
(*   - a text is a sequence of tokens (single characters, vocabulary       *)
(*     words, runs of filler characters), each with its character length,  *)
(*     so that character offsets and distances are those of the string;    *)
(*   - a value is kept in hundredths (the patterns capture at most two     *)
(*     decimal digits); a year "20dd" is kept as the number 20dd.          *)
(*                                                                         *)
(* Assumptions on code outside the repository's sources                    *)
(*   - React runs an effect once after mounting and again only after a     *)
(*     render in which one of its deps changed identity;                   *)
(*   - the toast function returned by useToast keeps its identity, so      *)
(*     that handleAnalysisComplete, and with it startAnalysis, keep        *)
(*     theirs while the engine is mounted;                                 *)
(*   - the storage and extraction collaborators may resolve or reject      *)
(*     every call, and an extraction may resolve with any text.            *)
(*   - the component that mounts AnalysisDashboard is not among the        *)
(*     sources: it is taken to mount it over the upload list and to keep   *)
(*     its props while it is mounted; its onBack is not modelled;          *)
(*   - the time an export reads (new Date()) is any element of Clock.      *)
(***************************************************************************)
EXTENDS Integers, Sequences, FiniteSets, TLC

(***************************************************************************)
(* Generic helpers                                                         *)
(***************************************************************************)
Last(s) == s[Len(s)]

Max2(a, b) == IF a >= b THEN a ELSE b

AbsDiff(a, b) == IF a >= b THEN a - b ELSE b - a

RECURSIVE SeqFilterIdx(_, _, _)
\* the indices i of 1..n (ascending, from i) for which keep[i], as a sequence
SeqFilterIdx(keep, i, n) ==
  IF i > n THEN <<>>
  ELSE IF keep[i] THEN <<i>> \o SeqFilterIdx(keep, i + 1, n)
  ELSE SeqFilterIdx(keep, i + 1, n)

\* Set.add: append x unless already present (insertion order is kept)
AddDistinct(s, x) ==
  IF \E i \in DOMAIN s : s[i] = x THEN s ELSE Append(s, x)

(***************************************************************************)
(* Files                                                                   *)
(***************************************************************************)
\* String.prototype.toLowerCase on the extensions that occur in the model
Lower(s) ==
  CASE s = "PDF" -> "pdf"
    [] s = "XLSX" -> "xlsx"
    [] s = "DOCX" -> "docx"
    [] s = "Revenue" -> "revenue"
    [] s = "SALES" -> "sales"
    [] s = "EBITDA" -> "ebitda"
    [] s = "Net" -> "net"
    [] s = "Income" -> "income"
    [] s = "Total" -> "total"
    [] s = "Assets" -> "assets"
    [] s = "Liabilities" -> "liabilities"
    [] s = "Cash" -> "cash"
    [] s = "Flow" -> "flow"
    [] OTHER -> s

\* file.name.toLowerCase().split('.').pop()
Extension(name) == Lower(Last(name))

SupportedExtensions == {"pdf", "docx", "xlsx"}

\* 50 * 1024 * 1024
MaxFileSize == 52428800

File(name, size) == [name |-> name, size |-> size]

\* The files a user can pick in the model: two different files that share
\* a name (same name, different folders), an upper-case extension, an empty
\* file, a file over the size limit and an unsupported type.
FileA1 == File(<<"a", "pdf">>, 1000)
FileA2 == File(<<"a", "pdf">>, 2000)
FileB == File(<<"b", "XLSX">>, 1000)
FileEmpty == File(<<"e", "docx">>, 0)
FileHuge == File(<<"h", "pdf">>, MaxFileSize + 1)
FileTxt == File(<<"n", "txt">>, 1000)

FileUniverse == {FileA1, FileA2, FileB, FileEmpty, FileHuge, FileTxt}

(***************************************************************************)
(* Texts: what the extraction collaborator returns                         *)
(***************************************************************************)
WordLen ==
  [revenue |-> 7, Revenue |-> 7, sales |-> 5, SALES |-> 5, total |-> 5,
   ebitda |-> 6, earnings |-> 8, before |-> 6, net |-> 3, income |-> 6,
   profit |-> 6, after |-> 5, tax |-> 3, assets |-> 6, liabilities |-> 11,
   equity |-> 6, shareholders |-> 12, stockholders |-> 12, operating |-> 9,
   cash |-> 4, flow |-> 4, from |-> 4, operations |-> 10, investing |-> 9,
   financing |-> 9, change |-> 6, in |-> 2, memo |-> 4, fiscal |-> 6,
   EBITDA |-> 6, Net |-> 3, Income |-> 6, Total |-> 5, Assets |-> 6,
   Liabilities |-> 11, Cash |-> 4, Flow |-> 4]

\* one character
Ch(c) == [k |-> "c", s |-> c, n |-> 1]
\* a vocabulary word
W(w) == [k |-> "w", s |-> w, n |-> WordLen[w]]
\* n filler characters that take part in no match
Pad(n) == [k |-> "pad", s |-> "", n |-> n]

Digits == {"0", "1", "2", "3", "4", "5", "6", "7", "8", "9"}

DigitVal(c) ==
  CASE c = "0" -> 0 [] c = "1" -> 1 [] c = "2" -> 2 [] c = "3" -> 3
    [] c = "4" -> 4 [] c = "5" -> 5 [] c = "6" -> 6 [] c = "7" -> 7
    [] c = "8" -> 8 [] c = "9" -> 9

\* the characters \s matches among those of the model
WhiteSpace == {" ", "\n", "\t"}

IsChar(tok, set) == tok.k = "c" /\ tok.s \in set

RECURSIVE CharsBetween(_, _, _)
\* the number of characters of the tokens lo..hi of the text
CharsBetween(text, lo, hi) ==
  IF lo > hi THEN 0
  ELSE IF lo = hi THEN text[lo].n
  ELSE LET mid == (lo + hi) \div 2
       IN CharsBetween(text, lo, mid) + CharsBetween(text, mid + 1, hi)

\* the character index (0-based) at which token p of the text starts
CharOffset(text, p) == CharsBetween(text, 1, p - 1)

TextLength(text) == CharOffset(text, Len(text) + 1)

\* !extractedText || extractedText.trim().length === 0
IsBlank(text) ==
  \/ TextLength(text) = 0
  \/ \A p \in DOMAIN text : IsChar(text[p], WhiteSpace)

(***************************************************************************)
(* Figure extractor (AnalysisEngine.extractFinancialFigures)               *)
(***************************************************************************)
\* The pattern table. A label is the literal that starts the pattern, as the
\* sequence of its words and spaces; "?" stands for the regex ".?". Every
\* pattern continues with [:\s]+\$?([\d,]+(?:\.\d{2})?) and has flags gi.
Patterns ==
  << [category |-> "Income Statement", field |-> "Revenue",
      patterns |-> << <<"revenue">>, <<"sales">>, <<"total", " ", "revenue">> >>],
     [category |-> "Income Statement", field |-> "EBITDA",
      patterns |-> << <<"ebitda">>, <<"earnings", " ", "before">> >>],
     [category |-> "Income Statement", field |-> "Net Income",
      patterns |-> << <<"net", " ", "income">>, <<"net", " ", "profit">>,
                      <<"profit", " ", "after", " ", "tax">> >>],
     [category |-> "Balance Sheet", field |-> "Total Assets",
      patterns |-> << <<"total", " ", "assets">>, <<"assets">> >>],
     [category |-> "Balance Sheet", field |-> "Total Liabilities",
      patterns |-> << <<"total", " ", "liabilities">>, <<"liabilities">> >>],
     [category |-> "Balance Sheet", field |-> "Equity",
      patterns |-> << <<"equity">>, <<"shareholders", "?", " ", "equity">>,
                      <<"stockholders", "?", " ", "equity">> >>],
     [category |-> "Cash Flow Statement", field |-> "Operating Cash Flow",
      patterns |-> << <<"operating", " ", "cash", " ", "flow">>,
                      <<"cash", " ", "from", " ", "operations">> >>],
     [category |-> "Cash Flow Statement", field |-> "Investing Cash Flow",
      patterns |-> << <<"investing", " ", "cash", " ", "flow">>,
                      <<"cash", " ", "from", " ", "investing">> >>],
     [category |-> "Cash Flow Statement", field |-> "Financing Cash Flow",
      patterns |-> << <<"financing", " ", "cash", " ", "flow">>,
                      <<"cash", " ", "from", " ", "financing">> >>],
     [category |-> "Cash Flow Statement", field |-> "Net Change in Cash",
      patterns |-> << <<"net", " ", "change", " ", "in", " ", "cash">>,
                      <<"net", " ", "cash", " ", "flow">> >>] >>

RECURSIVE MatchLabel(_, _, _, _)
\* The label from its element j on, matched at token p: the token after the
\* match, or 0 when it does not match. ".?" first tries to take a character.
MatchLabel(text, p, label, j) ==
  IF j > Len(label) THEN p
  ELSE IF label[j] = "?" THEN
    LET taken == IF p <= Len(text) /\ text[p].k = "c" /\ text[p].s # "\n"
                 THEN MatchLabel(text, p + 1, label, j + 1) ELSE 0
    IN IF taken # 0 THEN taken ELSE MatchLabel(text, p, label, j + 1)
  ELSE IF p > Len(text) THEN 0
  ELSE IF label[j] = " " THEN
    IF IsChar(text[p], {" "}) THEN MatchLabel(text, p + 1, label, j + 1) ELSE 0
  ELSE IF text[p].k = "w" /\ Lower(text[p].s) = label[j]
    THEN MatchLabel(text, p + 1, label, j + 1) ELSE 0

RECURSIVE SkipWhile(_, _, _)
\* the first token from p on that is not a character of the set
SkipWhile(text, p, set) ==
  IF p <= Len(text) /\ IsChar(text[p], set) THEN SkipWhile(text, p + 1, set) ELSE p

\* The whole pattern matched at token p: [ok, start, end, raw] where raw is
\* the numeric capture (characters) and end the token after the match.
NoMatch == [ok |-> FALSE, start |-> 0, end |-> 0, raw |-> <<>>]

MatchAt(text, p, label) ==
  LET q1 == MatchLabel(text, p, label, 1)
      q2 == SkipWhile(text, q1, WhiteSpace \cup {":"})
      q3 == IF q2 <= Len(text) /\ IsChar(text[q2], {"$"}) THEN q2 + 1 ELSE q2
      q4 == SkipWhile(text, q3, Digits \cup {","})
      dec == /\ q4 + 2 <= Len(text)
             /\ IsChar(text[q4], {"."})
             /\ IsChar(text[q4 + 1], Digits)
             /\ IsChar(text[q4 + 2], Digits)
      q5 == IF dec THEN q4 + 3 ELSE q4
  IN IF q1 = 0 \/ q2 = q1 \/ q4 = q3 THEN NoMatch
     ELSE [ok |-> TRUE, start |-> p, end |-> q5,
           raw |-> [i \in 1..(q5 - q3) |-> text[q3 + i - 1].s]]

RECURSIVE ExecAll(_, _, _)
\* while ((match = pattern.exec(text)) !== null): the matches of a global
\* pattern from token p on, left to right and not overlapping
ExecAll(text, label, p) ==
  IF p > Len(text) THEN <<>>
  ELSE LET m == MatchAt(text, p, label)
       IN IF m.ok THEN <<m>> \o ExecAll(text, label, m.end)
          ELSE ExecAll(text, label, p + 1)

RECURSIVE StripCommas(_)
\* match[1].replace(/,/g, '')
StripCommas(raw) ==
  IF raw = <<>> THEN <<>>
  ELSE IF raw[1] = "," THEN StripCommas(Tail(raw))
  ELSE <<raw[1]>> \o StripCommas(Tail(raw))

RECURSIVE DigitsValue(_, _, _)
\* the number spelled by the digits str[i..], continuing from acc
DigitsValue(str, i, acc) ==
  IF i > Len(str) \/ str[i] \notin Digits THEN acc
  ELSE DigitsValue(str, i + 1, acc * 10 + DigitVal(str[i]))

\* parseFloat on a string of digits with an optional ".dd": the value in
\* hundredths, or NaN when the string holds no number
ParseFloat(str) ==
  LET dot == IF \E i \in DOMAIN str : str[i] = "."
             THEN CHOOSE i \in DOMAIN str : str[i] = "." /\ \A j \in 1..(i - 1) : str[j] # "."
             ELSE Len(str) + 1
      whole == DigitsValue(SubSeq(str, 1, dot - 1), 1, 0)
      frac == IF dot + 2 <= Len(str)
              THEN DigitVal(str[dot + 1]) * 10 + DigitVal(str[dot + 2]) ELSE 0
      hasDigit == \E i \in DOMAIN str : str[i] \in Digits
  IN [nan |-> ~hasDigit, v |-> IF hasDigit THEN whole * 100 + frac ELSE 0]

IsYearAt(text, p) ==
  /\ p + 3 <= Len(text)
  /\ IsChar(text[p], {"2"})
  /\ IsChar(text[p + 1], {"0"})
  /\ IsChar(text[p + 2], Digits)
  /\ IsChar(text[p + 3], Digits)

YearAt(text, p) == 2000 + DigitVal(text[p + 2].s) * 10 + DigitVal(text[p + 3].s)

RECURSIVE YearMatches(_, _)
\* text.match(/20\d{2}/g): the years matched from token p on, in text order
YearMatches(text, p) ==
  IF p > Len(text) THEN <<>>
  ELSE IF IsYearAt(text, p) THEN <<YearAt(text, p)>> \o YearMatches(text, p + 4)
  ELSE YearMatches(text, p + 1)

RECURSIVE ToOrderedSet(_, _)
\* new Set<string>() filled by forEach(add): distinct, in insertion order
ToOrderedSet(s, acc) ==
  IF s = <<>> THEN acc ELSE ToOrderedSet(Tail(s), AddDistinct(acc, s[1]))

\* new Date().getFullYear()
CurrentYear == 2026

\* foundYears, with the default of the current and the previous year
FoundYears(text) ==
  LET found == ToOrderedSet(YearMatches(text, 1), <<>>)
  IN IF Len(found) = 0 THEN <<CurrentYear, CurrentYear - 1>> ELSE found

\* text.indexOf(year, from): the character index of the first occurrence of
\* the four characters of the year at or after index from, or -1
IndexOf(text, year, from) ==
  LET hits == {p \in DOMAIN text :
                 /\ IsYearAt(text, p)
                 /\ YearAt(text, p) = year
                 /\ CharOffset(text, p) >= from}
  IN IF hits = {} THEN -1
     ELSE CharOffset(text, CHOOSE p \in hits : \A q \in hits : p <= q)

YearLookBehind == 200
YearMaxDistance == 300
PageChars == 2000
\* 0.85, in hundredths
BaseConfidence == 85

RECURSIVE ClosestYearFrom(_, _, _, _, _)
\* foundYears.forEach(year => ...): the fold over the candidate years from
\* the i-th on; best holds closestYear and closestDistance (inf: Infinity)
ClosestYearFrom(text, years, matchIndex, i, best) ==
  IF i > Len(years) THEN best.year
  ELSE LET yearIndex == IndexOf(text, years[i], Max2(0, matchIndex - YearLookBehind))
           distance == AbsDiff(yearIndex, matchIndex)
           closer == /\ yearIndex # -1
                     /\ (best.inf \/ distance < best.distance)
                     /\ distance < YearMaxDistance
       IN ClosestYearFrom(text, years, matchIndex, i + 1,
            IF closer THEN [year |-> years[i], inf |-> FALSE, distance |-> distance]
            ELSE best)

\* the default taken from the end of foundYears instead of its start
ClosestYearDefaultLast(text, years, matchIndex) ==
  ClosestYearFrom(text, years, matchIndex, 1,
                  [year |-> years[Len(years)], inf |-> TRUE, distance |-> 0])

ClosestYear(text, years, matchIndex) ==
  ClosestYearFrom(text, years, matchIndex, 1,
                  [year |-> years[1], inf |-> TRUE, distance |-> 0])

Location(fileName, matchIndex) ==
  LET extension == Extension(fileName)
  IN CASE extension = "pdf" -> <<"PDF page", (matchIndex \div PageChars) + 1>>
       [] extension = "xlsx" -> <<"Excel worksheet", 0>>
       [] extension = "docx" -> <<"Word document", 0>>
       [] OTHER -> <<"Document content", 0>>

RECURSIVE FiguresOfMatches(_, _, _, _, _)
\* the figures pushed for the matches ms of one pattern of one table entry
FiguresOfMatches(text, fileName, entry, years, ms) ==
  IF ms = <<>> THEN <<>>
  ELSE LET m == ms[1]
           value == ParseFloat(StripCommas(m.raw))
           matchIndex == CharOffset(text, m.start)
           rest == FiguresOfMatches(text, fileName, entry, years, Tail(ms))
       IN IF ~value.nan /\ value.v > 0
          THEN << [category |-> entry.category,
                   year |-> ClosestYear(text, years, matchIndex),
                   value |-> value.v,
                   label |-> entry.field,
                   documentName |-> fileName,
                   location |-> Location(fileName, matchIndex),
                   confidence |-> BaseConfidence] >> \o rest
          ELSE rest

RECURSIVE FiguresOfPatterns(_, _, _, _, _)
FiguresOfPatterns(text, fileName, entry, years, j) ==
  IF j > Len(entry.patterns) THEN <<>>
  ELSE FiguresOfMatches(text, fileName, entry, years,
                        ExecAll(text, entry.patterns[j], 1))
       \o FiguresOfPatterns(text, fileName, entry, years, j + 1)

RECURSIVE FiguresOfTable(_, _, _, _)
FiguresOfTable(text, fileName, years, e) ==
  IF e > Len(Patterns) THEN <<>>
  ELSE FiguresOfPatterns(text, fileName, Patterns[e], years, 1)
       \o FiguresOfTable(text, fileName, years, e + 1)

extractFinancialFigures(text, fileName) ==
  FiguresOfTable(text, fileName, FoundYears(text), 1)

(***************************************************************************)
(* The texts the extraction collaborator returns in the model              *)
(***************************************************************************)
Chars(s) == [i \in DOMAIN s |-> Ch(s[i])]

\* ""
TextEmpty == <<>>
\* " \n"
TextSpaces == Chars(<<" ", "\n">>)
\* "memo fiscal"
TextMemo == <<W("memo"), Ch(" "), W("fiscal")>>
\* "Revenue: $1,000 (2024)"
TextRev1000 ==
  <<W("Revenue")>> \o Chars(<<":", " ", "$", "1", ",", "0", "0", "0", " ", "(",
                             "2", "0", "2", "4", ")">>)
\* "fiscal 2024\ntotal revenue: 1,200.00\nSALES: 900\n" ++ 400 filler
\* characters ++ "assets: 50 (2023)"
TextRev1200 ==
  <<W("fiscal")>> \o Chars(<<" ", "2", "0", "2", "4", "\n">>)
  \o <<W("total"), Ch(" "), W("revenue")>>
  \o Chars(<<":", " ", "1", ",", "2", "0", "0", ".", "0", "0", "\n">>)
  \o <<W("SALES")>> \o Chars(<<":", " ", "9", "0", "0", "\n">>)
  \o <<Pad(400), W("assets")>>
  \o Chars(<<":", " ", "5", "0", " ", "(", "2", "0", "2", "3", ")">>)

Texts == {TextEmpty, TextSpaces, TextMemo, TextRev1000, TextRev1200}

(***************************************************************************)
(* Cross-document comparator                                               *)
(***************************************************************************)
\* The labels (or years) of all figures of all analyses, as the Set that
\* analyses.forEach(a => a.extractedFigures.forEach(f => set.add(...))) fills
RECURSIVE CollectFrom(_, _, _, _)
CollectFrom(analyses, key, i, acc) ==
  IF i > Len(analyses) THEN acc
  ELSE CollectFrom(analyses, key, i + 1,
         ToOrderedSet([j \in DOMAIN analyses[i].extractedFigures |->
                         IF key = "label" THEN analyses[i].extractedFigures[j].label
                         ELSE analyses[i].extractedFigures[j].year], acc))

\* find replaced by a search from the end: the index of the last such figure
FindLastFigure(figures, field, year) ==
  LET hits == {j \in DOMAIN figures : figures[j].label = field /\ figures[j].year = year}
  IN IF hits = {} THEN 0 ELSE CHOOSE j \in hits : \A k \in hits : j >= k

\* extractedFigures.find(f => f.label === field && f.year === year): the
\* index of the first such figure, 0 when there is none
FindFigure(figures, field, year) ==
  LET hits == {j \in DOMAIN figures : figures[j].label = field /\ figures[j].year = year}
  IN IF hits = {} THEN 0 ELSE CHOOSE j \in hits : \A k \in hits : j <= k

\* values[key] = entry on a plain object: a new key is added last, an
\* existing key keeps its place and takes the new value
ObjectSet(obj, key, present, value) ==
  LET entry == [doc |-> key, present |-> present, value |-> value]
  IN IF \E i \in DOMAIN obj : obj[i].doc = key
     THEN [i \in DOMAIN obj |-> IF obj[i].doc = key THEN entry ELSE obj[i]]
     ELSE Append(obj, entry)

DefaultCategory == "Income Statement"

RECURSIVE GatherValues(_, _, _, _, _)
\* analyses.forEach(analysis => { ... }) of CrossCheckReport: acc holds the
\* values object and the category
GatherValues(analyses, field, year, i, acc) ==
  IF i > Len(analyses) THEN acc
  ELSE LET figs == analyses[i].extractedFigures
           j == FindFigure(figs, field, year)
       IN GatherValues(analyses, field, year, i + 1,
            [values |-> ObjectSet(acc.values, analyses[i].fileName, j # 0,
                                  IF j # 0 THEN figs[j].value ELSE 0),
             category |-> IF j # 0 THEN figs[j].category ELSE acc.category])

\* Object.values(values) with the filter forgotten: null counts as a value
AllValues(values) == [k \in DOMAIN values |-> values[k].value]

\* Object.values(values).filter(v => v !== null)
NonNullValues(values) ==
  LET idx == SeqFilterIdx([i \in DOMAIN values |-> values[i].present], 1, Len(values))
  IN [k \in DOMAIN idx |-> values[idx[k]].value]

\* new Set(nonNullValues).size
UniqueCount(vals) == Cardinality({vals[i] : i \in DOMAIN vals})

MinDocsForComparison == 2

\* the body of allYears.forEach(year => ...): the comparison pushed for the
\* pair, as a sequence of zero or one element
CompareFieldYear(analyses, field, year) ==
  LET g == GatherValues(analyses, field, year, 1,
                        [values |-> <<>>, category |-> DefaultCategory])
      nonNullValues == NonNullValues(g.values)
  IN IF Len(nonNullValues) >= MinDocsForComparison
     THEN << [year |-> year, field |-> field, values |-> g.values,
              consistent |-> UniqueCount(nonNullValues) = 1,
              category |-> g.category] >>
     ELSE <<>>

RECURSIVE CompareYears(_, _, _, _)
CompareYears(analyses, field, years, k) ==
  IF k > Len(years) THEN <<>>
  ELSE CompareFieldYear(analyses, field, years[k])
       \o CompareYears(analyses, field, years, k + 1)

RECURSIVE CompareFields(_, _, _, _)
CompareFields(analyses, fields, years, f) ==
  IF f > Len(fields) THEN <<>>
  ELSE CompareYears(analyses, fields[f], years, 1)
       \o CompareFields(analyses, fields, years, f + 1)

AllFields(analyses) == CollectFrom(analyses, "label", 1, <<>>)
AllYears(analyses) == CollectFrom(analyses, "year", 1, <<>>)

\* the comparisons of the on-screen report
Comparisons(analyses) ==
  CompareFields(analyses, AllFields(analyses), AllYears(analyses), 1)

\* the filter forgotten: every comparison counted
AllIdx(comparisons) == [i \in DOMAIN comparisons |-> i]

\* comparisons.filter(c => keep(c)), as indices
ConsistentIdx(comparisons) ==
  SeqFilterIdx([i \in DOMAIN comparisons |-> comparisons[i].consistent],
               1, Len(comparisons))
InconsistentIdx(comparisons) ==
  SeqFilterIdx([i \in DOMAIN comparisons |-> ~comparisons[i].consistent],
               1, Len(comparisons))

KeyDiscrepancyCap == 5

\* .slice(-n): the last n elements
SliceFromEnd(s, n) == SubSeq(s, IF Len(s) < n THEN 1 ELSE Len(s) - n + 1, Len(s))

\* .slice(0, n)
Slice(s, n) == SubSeq(s, 1, IF Len(s) < n THEN Len(s) ELSE n)

\* the categories of all the comparisons, the filter forgotten
SectionsOfAll(comparisons) ==
  ToOrderedSet([k \in DOMAIN comparisons |-> comparisons[k].category], <<>>)

\* Array.from(new Set(comparisons.filter(c => c.consistent).map(c => c.category)))
ConsistentSections(comparisons) ==
  LET cons == ConsistentIdx(comparisons)
  IN ToOrderedSet([k \in DOMAIN cons |-> comparisons[cons[k]].category], <<>>)

\* the summary of the on-screen report
Summary(comparisons) ==
  LET totalComparisons == Len(comparisons)
      consistentCount == Len(ConsistentIdx(comparisons))
      discrepancyCount == totalComparisons - consistentCount
      key == Slice(InconsistentIdx(comparisons), KeyDiscrepancyCap)
  IN [totalComparisons |-> totalComparisons,
      consistentCount |-> consistentCount,
      discrepancyCount |-> discrepancyCount,
      keyDiscrepancies |->
        [k \in DOMAIN key |->
           [field |-> comparisons[key[k]].field,
            year |-> comparisons[key[k]].year,
            docValues |-> SelectSeq(comparisons[key[k]].values,
                                    LAMBDA e : e.present)]],
      consistentSections |-> ConsistentSections(comparisons)]

\* a comparator that reverses the list it is given, in place
ReportReversing(list) ==
  LET reversed == [i \in DOMAIN list |-> list[Len(list) + 1 - i]]
      comparisons == Comparisons(reversed)
  IN [documentAnalyses |-> reversed,
      comparisons |-> comparisons,
      summary |-> Summary(comparisons)]

\* the report CrossCheckReport derives from its analyses
Report(analyses) ==
  LET comparisons == Comparisons(analyses)
  IN [documentAnalyses |-> analyses,
      comparisons |-> comparisons,
      summary |-> Summary(comparisons)]

(***************************************************************************)
(* The comparisons of the exports (App.generateComparisons)                *)
(***************************************************************************)
\* the values of the export with `category = figure.category` forgotten
valuesOfExportDefaultCategory(analyses, field, year, i, acc) ==
  [values |-> GatherValues(analyses, field, year, i, acc).values,
   category |-> acc.category]

RECURSIVE valuesOfExport(_, _, _, _, _)
\* analyses.forEach(analysis => { ... }) of generateComparisons
valuesOfExport(analyses, field, year, i, acc) ==
  IF i > Len(analyses) THEN acc
  ELSE LET figure == FindFigure(analyses[i].extractedFigures, field, year)
       IN valuesOfExport(analyses, field, year, i + 1,
            [values |-> ObjectSet(acc.values, analyses[i].fileName, figure # 0,
                                  IF figure # 0
                                  THEN analyses[i].extractedFigures[figure].value
                                  ELSE 0),
             category |-> IF figure # 0
                          THEN analyses[i].extractedFigures[figure].category
                          ELSE acc.category])

RECURSIVE exportPairs(_, _, _, _, _)
\* allFields.forEach(field => allYears.forEach(year => ...)), from the pair
\* (fields[f], years[k]) on
exportPairs(analyses, fields, years, f, k) ==
  IF f > Len(fields) THEN <<>>
  ELSE IF k > Len(years) THEN exportPairs(analyses, fields, years, f + 1, 1)
  ELSE LET g == valuesOfExport(analyses, fields[f], years[k], 1,
                               [values |-> <<>>, category |-> "Income Statement"])
           nonNullValues == NonNullValues(g.values)
       IN (IF Len(nonNullValues) >= MinDocsForComparison
           THEN << [year |-> years[k], field |-> fields[f], values |-> g.values,
                    consistent |-> UniqueCount(nonNullValues) = 1,
                    category |-> g.category] >>
           ELSE <<>>)
          \o exportPairs(analyses, fields, years, f, k + 1)

generateComparisons(analyses) ==
  exportPairs(analyses, AllFields(analyses), AllYears(analyses), 1, 1)

\* the counts of the executive summary of generateReportContent
ExportCounts(analyses) ==
  LET allComparisons == generateComparisons(analyses)
      consistentCount == Len(ConsistentIdx(allComparisons))
  IN [totalComparisons |-> Len(allComparisons),
      consistentCount |-> consistentCount,
      discrepancyCount |-> Len(allComparisons) - consistentCount]

(***************************************************************************)
(* Figure extractor of AnalysisDashboard                                   *)
(***************************************************************************)
\* The pattern table of AnalysisDashboard, with labels as in Patterns. Every
\* pattern continues with [:\s]+\$?([\d,]+), except the one whose label ends
\* with "*", which continues with [:\s\w]*\$?([\d,]+); the flag is i.
financialPatterns ==
  << [category |-> "Revenue",
      patterns |-> << <<"revenue">>, <<"sales">>, <<"total", " ", "revenue">> >>],
     [category |-> "EBITDA",
      patterns |-> << <<"ebitda">>, <<"earnings", " ", "before", "*">> >>],
     [category |-> "Net Income",
      patterns |-> << <<"net", " ", "income">>, <<"net", " ", "profit">>,
                      <<"profit">> >>],
     [category |-> "Total Assets",
      patterns |-> << <<"total", " ", "assets">>, <<"assets">> >>],
     [category |-> "Total Liabilities",
      patterns |-> << <<"total", " ", "liabilities">>, <<"liabilities">> >>],
     [category |-> "Cash Flow",
      patterns |-> << <<"cash", " ", "flow">>,
                      <<"operating", " ", "cash", " ", "flow">> >>] >>

\* the tokens [:\s\w] matches: in the texts of the model letters occur in
\* vocabulary words only
WordOrSeparator(tok) ==
  tok.k = "w" \/ IsChar(tok, WhiteSpace \cup {":", "_"} \cup Digits)

RECURSIVE SkipWordsAndSeparators(_, _)
SkipWordsAndSeparators(text, p) ==
  IF p <= Len(text) /\ WordOrSeparator(text[p])
  THEN SkipWordsAndSeparators(text, p + 1) ELSE p

\* \$?([\d,]+) matched at token q: the token after the match, q when it
\* does not match
CaptureEnd(text, q) ==
  LET a == IF q <= Len(text) /\ IsChar(text[q], {"$"}) THEN q + 1 ELSE q
      b == SkipWhile(text, a, Digits \cup {","})
  IN IF b > a THEN b ELSE q

\* A pattern of the table matched at token p. [:\s\w]* is greedy: it gives
\* back what it took until the capture finds a digit, so that the capture
\* is then the last digit it took.
DashboardMatchAt(text, p, label) ==
  IF Last(label) = "*"
  THEN LET q1 == MatchLabel(text, p, SubSeq(label, 1, Len(label) - 1), 1)
           q2 == SkipWordsAndSeparators(text, q1)
           end == CaptureEnd(text, q2)
           given == {q \in q1..(q2 - 1) : IsChar(text[q], Digits)}
           back == CHOOSE q \in given : \A r \in given : r <= q
       IN IF q1 = 0 THEN NoMatch
          ELSE IF end > q2
            THEN LET q3 == IF IsChar(text[q2], {"$"}) THEN q2 + 1 ELSE q2
                 IN [ok |-> TRUE, start |-> p, end |-> end,
                     raw |-> [i \in 1..(end - q3) |-> text[q3 + i - 1].s]]
          ELSE IF given # {}
            THEN [ok |-> TRUE, start |-> p, end |-> back + 1,
                  raw |-> <<text[back].s>>]
          ELSE NoMatch
  ELSE LET q1 == MatchLabel(text, p, label, 1)
           q2 == SkipWhile(text, q1, WhiteSpace \cup {":"})
           q3 == IF q2 <= Len(text) /\ IsChar(text[q2], {"$"}) THEN q2 + 1 ELSE q2
           q4 == SkipWhile(text, q3, Digits \cup {","})
       IN IF q1 = 0 \/ q2 = q1 \/ q4 = q3 THEN NoMatch
          ELSE [ok |-> TRUE, start |-> p, end |-> q4,
                raw |-> [i \in 1..(q4 - q3) |-> text[q3 + i - 1].s]]

\* text.match(pattern) with a pattern that is not global: the leftmost
\* match
FirstMatch(text, label) ==
  LET starts == {p \in DOMAIN text : DashboardMatchAt(text, p, label).ok}
  IN IF starts = {} THEN NoMatch
     ELSE DashboardMatchAt(text, CHOOSE p \in starts : \A q \in starts : p <= q,
                           label)

ContextChars == 100
DefaultYear == 2024
\* 0.9, in hundredths
DashboardConfidence == 90

\* [...new Set(yearMatches)].sort().reverse()[0] || '2024'
LatestYear(text) ==
  LET found == YearMatches(text, 1)
      years == {found[i] : i \in DOMAIN found}
  IN IF years = {} THEN DefaultYear
     ELSE CHOOSE y \in years : \A z \in years : z <= y

\* The year of a figure: the first match of /20\d{2}/ in contextBefore +
\* matches[0] + contextAfter, else the latest year of the document. A year
\* is in the context when it starts at or after matchIndex - 100 and ends
\* within matches[0] or before matchIndex + 100.
YearInContext(text, m) ==
  LET matchIndex == CharOffset(text, m.start)
      from == Max2(0, matchIndex - ContextChars)
      to == Max2(CharOffset(text, m.end),
                 IF TextLength(text) < matchIndex + ContextChars
                 THEN TextLength(text) ELSE matchIndex + ContextChars)
      hits == {p \in DOMAIN text :
                 /\ IsYearAt(text, p)
                 /\ CharOffset(text, p) >= from
                 /\ CharOffset(text, p) + 4 <= to}
  IN IF hits = {} THEN LatestYear(text)
     ELSE YearAt(text, CHOOSE p \in hits : \A q \in hits : p <= q)

RECURSIVE DashboardFiguresOfPatterns(_, _, _, _)
\* patterns.forEach(pattern => ...) for one entry of the table, from its
\* j-th pattern on: a figure is pushed when the capture parses to a number
DashboardFiguresOfPatterns(text, fileName, entry, j) ==
  IF j > Len(entry.patterns) THEN <<>>
  ELSE LET matches == FirstMatch(text, entry.patterns[j])
           value == ParseFloat(StripCommas(matches.raw))
       IN (IF matches.ok /\ ~value.nan
           THEN << [category |-> entry.category,
                    value |-> value.v,
                    year |-> YearInContext(text, matches),
                    documentName |-> fileName,
                    location |-> "Found in document text",
                    confidence |-> DashboardConfidence] >>
           ELSE <<>>)
          \o DashboardFiguresOfPatterns(text, fileName, entry, j + 1)

RECURSIVE DashboardFiguresOfTable(_, _, _)
DashboardFiguresOfTable(text, fileName, e) ==
  IF e > Len(financialPatterns) THEN <<>>
  ELSE DashboardFiguresOfPatterns(text, fileName, financialPatterns[e], 1)
       \o DashboardFiguresOfTable(text, fileName, e + 1)

\* AnalysisDashboard.extractFinancialFigures
DashboardExtractFinancialFigures(text, fileName) ==
  DashboardFiguresOfTable(text, fileName, 1)

(***************************************************************************)
(* The texts of the model for AnalysisDashboard                            *)
(***************************************************************************)
\* "Revenue: 0\nprofit: ,"
TextRevZero ==
  <<W("Revenue")>> \o Chars(<<":", " ", "0", "\n">>)
  \o <<W("profit")>> \o Chars(<<":", " ", ",">>)
\* "earnings before tax 2024: 500"
TextEarnings ==
  <<W("earnings"), Ch(" "), W("before"), Ch(" "), W("tax")>>
  \o Chars(<<" ", "2", "0", "2", "4", ":", " ", "5", "0", "0">>)

RECURSIVE DigitsOf(_)
\* the decimal digits of a natural number, as characters
DigitsOf(n) ==
  LET digit == <<"0", "1", "2", "3", "4", "5", "6", "7", "8", "9">>
  IN IF n < 10 THEN <<digit[n + 1]>>
     ELSE DigitsOf(n \div 10) \o <<digit[(n % 10) + 1]>>

\* the characters of a file name
NameChars(name) ==
  IF Len(name) = 1 THEN Len(name[1])
  ELSE Len(name[1]) + 1 + Len(name[2])

\* one line of the sample data: the label, ": ", the number, " (2024)", and
\* the line break and indentation of the template literal
SampleLine(label, n) ==
  label \o Chars(<<":", " ">>) \o Chars(DigitsOf(n))
  \o Chars(<<" ", "(", "2", "0", "2", "4", ")", "\n">>) \o <<Pad(14)>>

\* the sample financial data that stands for the text of document i
\* (0-based) when both extractions raised
SampleText(fileName, i) ==
  <<Pad(26 + NameChars(fileName)), Ch(":"), Ch("\n"), Pad(14)>>
  \o SampleLine(<<W("Revenue")>>, 1200000 + i * 20000)
  \o SampleLine(<<W("EBITDA")>>, 300000 + i * 5000)
  \o SampleLine(<<W("Net"), Ch(" "), W("Income")>>, 150000 + i * 3000)
  \o SampleLine(<<W("Total"), Ch(" "), W("Assets")>>, 2500000 + i * 50000)
  \o SampleLine(<<W("Total"), Ch(" "), W("Liabilities")>>, 1000000 + i * 10000)
  \o SampleLine(<<W("Cash"), Ch(" "), W("Flow")>>, 200000 + i * 8000)

(***************************************************************************)
(* Cross-document comparison of AnalysisDashboard and DiscrepancyReport    *)
(***************************************************************************)
\* allExtractedData[fileName] = figures on a plain object: a new key is
\* added last, an existing key keeps its place and takes the new figures
DataSet(data, fileName, figures) ==
  LET entry == [docName |-> fileName, figures |-> figures]
  IN IF \E i \in DOMAIN data : data[i].docName = fileName
     THEN [i \in DOMAIN data |-> IF data[i].docName = fileName THEN entry ELSE data[i]]
     ELSE Append(data, entry)

RECURSIVE DataCollect(_, _, _, _)
\* Object.values(data).forEach(figures => figures.forEach(figure =>
\* set.add(...))): the categories (or years) in insertion order
DataCollect(data, key, i, acc) ==
  IF i > Len(data) THEN acc
  ELSE DataCollect(data, key, i + 1,
         ToOrderedSet([j \in DOMAIN data[i].figures |->
                         IF key = "category" THEN data[i].figures[j].category
                         ELSE data[i].figures[j].year], acc))

\* figures.find(f => f.category === category && f.year === year): the index
\* of the first such figure, 0 when there is none
FindCategoryYear(figures, category, year) ==
  LET hits == {j \in DOMAIN figures :
                 figures[j].category = category /\ figures[j].year = year}
  IN IF hits = {} THEN 0 ELSE CHOOSE j \in hits : \A k \in hits : j <= k

\* Object.entries(data).map(...).filter(item => item.figure)
FiguresForCategoryYear(data, category, year) ==
  LET idx == SeqFilterIdx([i \in DOMAIN data |->
                             FindCategoryYear(data[i].figures, category, year) # 0],
                          1, Len(data))
  IN [k \in DOMAIN idx |->
        [docName |-> data[idx[k]].docName,
         figure |-> data[idx[k]].figures[
                      FindCategoryYear(data[idx[k]].figures, category, year)]]]

\* the first value taken for the largest
FirstOf(values) == values[1]

\* Math.max(...values), Math.min(...values) of a non-empty array
MaxOf(values) ==
  CHOOSE v \in {values[i] : i \in DOMAIN values} :
    \A i \in DOMAIN values : values[i] <= v
MinOf(values) ==
  CHOOSE v \in {values[i] : i \in DOMAIN values} :
    \A i \in DOMAIN values : v <= values[i]

\* if (figuresForCategoryYear.length > 1)
MinSourcesExclusive == 1

\* The body of allYears.forEach(year => ...): what it pushes to the
\* matches and to the discrepancies of the report. The suggestion is kept
\* as the numbers its text is built from.
CompareCategoryYear(data, category, year) ==
  LET figuresForCategoryYear == FiguresForCategoryYear(data, category, year)
      values == [k \in DOMAIN figuresForCategoryYear |->
                   figuresForCategoryYear[k].figure.value]
      variance == MaxOf(values) - MinOf(values)
  IN IF ~(Len(figuresForCategoryYear) > MinSourcesExclusive)
     THEN [matches |-> <<>>, discrepancies |-> <<>>]
     ELSE IF UniqueCount(values) = 1
     THEN [matches |->
             << [category |-> category, year |-> year, value |-> values[1],
                 documents |-> [k \in DOMAIN figuresForCategoryYear |->
                                  figuresForCategoryYear[k].docName],
                 status |-> "match"] >>,
           discrepancies |-> <<>>]
     ELSE [matches |-> <<>>,
           discrepancies |->
             << [category |-> category, year |-> year,
                 values |-> [k \in DOMAIN figuresForCategoryYear |->
                               [documentName |-> figuresForCategoryYear[k].docName,
                                value |-> figuresForCategoryYear[k].figure.value,
                                location |-> figuresForCategoryYear[k].figure.location]],
                 status |-> "discrepancy",
                 variance |-> variance,
                 suggestion |-> [min |-> MinOf(values), max |-> MaxOf(values),
                                 variance |-> variance]] >>]

RECURSIVE ComparePairs(_, _, _, _, _)
\* allCategories.forEach(category => allYears.forEach(year => ...)), from
\* the pair (categories[c], years[y]) on
ComparePairs(data, categories, years, c, y) ==
  IF c > Len(categories) THEN [matches |-> <<>>, discrepancies |-> <<>>]
  ELSE IF y > Len(years) THEN ComparePairs(data, categories, years, c + 1, 1)
  ELSE LET here == CompareCategoryYear(data, categories[c], years[y])
           rest == ComparePairs(data, categories, years, c, y + 1)
       IN [matches |-> here.matches \o rest.matches,
           discrepancies |-> here.discrepancies \o rest.discrepancies]

\* Object.values(data).reduce((sum, figures) => sum + figures.length, 0)
RECURSIVE TotalFigures(_)
TotalFigures(data) ==
  IF data = <<>> THEN 0 ELSE Len(data[1].figures) + TotalFigures(Tail(data))

\* matches.length / (matches.length + discrepancies.length) * 100, as the
\* fraction num / den; 0 / 0 is NaN
ConsistencyScore(matchCount, discrepancyCount) ==
  IF matchCount + discrepancyCount = 0
  THEN [nan |-> TRUE, num |-> 0, den |-> 1]
  ELSE [nan |-> FALSE, num |-> matchCount * 100,
        den |-> matchCount + discrepancyCount]

\* The report analyzeDocuments hands to onAnalysisComplete (its id and
\* createdAt, which hold the time, are left out)
DashboardReport(files, data) ==
  LET compared == ComparePairs(data, DataCollect(data, "category", 1, <<>>),
                               DataCollect(data, "year", 1, <<>>), 1, 1)
  IN [documentNames |-> [i \in DOMAIN files |-> files[i].name],
      extractedFigures |-> data,
      discrepancies |-> compared.discrepancies,
      matches |-> compared.matches,
      summary |->
        [totalDocuments |-> Len(files),
         totalFiguresFound |-> TotalFigures(data),
         discrepancyCount |-> Len(compared.discrepancies),
         matchCount |-> Len(compared.matches),
         consistencyScore |-> ConsistencyScore(Len(compared.matches),
                                               Len(compared.discrepancies))]]

\* Array.prototype.sort on the categories of the pattern table
SortedCategoryNames ==
  <<"Cash Flow", "EBITDA", "Net Income", "Revenue", "Total Assets",
    "Total Liabilities">>

\* Array.from(allCategories).sort()
SortedCategories(data) ==
  LET all == DataCollect(data, "category", 1, <<>>)
  IN SelectSeq(SortedCategoryNames, LAMBDA c : \E i \in DOMAIN all : all[i] = c)

RECURSIVE SortedDescending(_)
\* Array.from(allYears).sort().reverse() on years of four digits
SortedDescending(years) ==
  IF years = {} THEN <<>>
  ELSE LET top == CHOOSE y \in years : \A z \in years : z <= y
       IN <<top>> \o SortedDescending(years \ {top})

SortedYears(data) ==
  LET all == DataCollect(data, "year", 1, <<>>)
  IN SortedDescending({all[i] : i \in DOMAIN all})

\* One cell of comparisonData: the `${year}_data`, `${year}_hasDiscrepancy`
\* and `${year}_variance` of a category, present when a document holds a
\* figure for the pair
ComparisonCell(data, category, year) ==
  LET figuresForCategoryYear == FiguresForCategoryYear(data, category, year)
      values == [k \in DOMAIN figuresForCategoryYear |->
                   figuresForCategoryYear[k].figure.value]
  IN IF Len(figuresForCategoryYear) > 0
     THEN << [year |-> year, data |-> figuresForCategoryYear,
              hasDiscrepancy |-> UniqueCount(values) > 1,
              variance |-> IF UniqueCount(values) > 1
                           THEN MaxOf(values) - MinOf(values) ELSE 0] >>
     ELSE <<>>

RECURSIVE ComparisonCells(_, _, _, _)
ComparisonCells(data, category, years, y) ==
  IF y > Len(years) THEN <<>>
  ELSE ComparisonCell(data, category, years[y])
       \o ComparisonCells(data, category, years, y + 1)

\* DiscrepancyReport.comparisonData
comparisonData(report) ==
  LET sortedCategories == SortedCategories(report.extractedFigures)
      sortedYears == SortedYears(report.extractedFigures)
  IN [c \in DOMAIN sortedCategories |->
        [category |-> sortedCategories[c],
         cells |-> ComparisonCells(report.extractedFigures, sortedCategories[c],
                                   sortedYears, 1)]]

\* Math.round(report.summary.consistencyScore || 0), the percentage shown
DisplayedScore(score) ==
  IF score.nan THEN 0 ELSE (2 * score.num + score.den) \div (2 * score.den)

(***************************************************************************)
(* State                                                                   *)
(***************************************************************************)
\* the most files the upload list holds in the model
MaxFiles == 3
\* the most files one file-select or drop event carries in the model
MaxSelect == 2

VARIABLES
  uploadVersion,   \* which DocumentUpload is built: "DocumentUpload" | "part_001"
  engineVersion,   \* which AnalysisEngine is built: "AnalysisEngine" | "part_000"
  state,           \* App: 'upload' | 'analyzing' | 'report'
  files,           \* App: the upload list
  analyses,        \* App: the results handed over by the last batch
  toast,           \* title of the toast the last step raised ("" when none)
  currentStep,     \* AnalysisEngine state
  progress,        \* AnalysisEngine state, as <<numerator, denominator>>
  engineAnalyses,  \* AnalysisEngine state: the analyses shown while running
  depsChanged,     \* the deps of the effect differ from those of its last run
  runs,            \* the invocations of startAnalysis that have not returned
  completeCalls,   \* history: calls of onAnalysisComplete since the batch began
  dashboard,       \* AnalysisDashboard: its state and its run of analyzeDocuments
  report,          \* CrossCheckReport: the value of its useMemo (<<>> before)
  download,        \* the file the last export handed to the browser (<<>>: none)
  extraction       \* a call of extractFinancialFigures on its own (<<>>: none)

vars == <<uploadVersion, engineVersion, state, files, analyses, toast,
          currentStep, progress, engineAnalyses, depsChanged, runs,
          completeCalls, dashboard, report, download, extraction>>

\* AnalysisDashboard before it is mounted: the initial values of its state.
\* pc is where its run of analyzeDocuments waits, i the (1-based) index of
\* the file it works on, allExtractedData, extractedText and report its
\* locals; sampled (history) holds the indices of the files of the run
\* whose text is the sample data.
DashboardUnmounted ==
  [pc |-> "unmounted", currentStep |-> 0, progress |-> <<0, 1>>,
   extractedData |-> <<>>, isAnalyzing |-> TRUE, error |-> <<>>,
   i |-> 0, allExtractedData |-> <<>>, extractedText |-> <<>>,
   sampled |-> {}, report |-> <<>>]

reportVars == <<report, download>>
engineVars == <<currentStep, progress, engineAnalyses, depsChanged>>
versionVars == <<uploadVersion, engineVersion>>

Init ==
  /\ uploadVersion \in {"DocumentUpload", "part_001"}
  /\ engineVersion \in {"AnalysisEngine", "part_000"}
  /\ state = "upload"
  /\ files = <<>>
  /\ analyses = <<>>
  /\ toast = ""
  /\ currentStep = 0
  /\ progress = <<0, 1>>
  /\ engineAnalyses = <<>>
  /\ depsChanged = FALSE
  /\ runs = <<>>
  /\ completeCalls = 0
  /\ dashboard = DashboardUnmounted
  /\ report = <<>>
  /\ download = <<>>
  /\ extraction = <<>>

(***************************************************************************)
(* Upload screen                                                           *)
(***************************************************************************)
\* the files App.handleFilesChange warns about
IsInvalidFile(file) ==
  \/ Extension(file.name) \notin SupportedExtensions
  \/ file.size = 0
  \/ file.size > MaxFileSize

\* the filter of handleFileSelect / handleDrop over the picked files
ValidFile(version, existing, file) ==
  IF version = "part_001"
  THEN /\ ~(file.size = 0)
       /\ ~(file.size > MaxFileSize)
       /\ Extension(file.name) \in SupportedExtensions
       /\ ~(\E i \in DOMAIN existing :
              existing[i].name = file.name /\ existing[i].size = file.size)
  ELSE Extension(file.name) \in SupportedExtensions

ValidFiles(version, existing, picked) ==
  LET idx == SeqFilterIdx([i \in DOMAIN picked |->
                             ValidFile(version, existing, picked[i])],
                          1, Len(picked))
  IN [k \in DOMAIN idx |-> picked[idx[k]]]

\* What one file-select or drop event can carry: up to MaxSelect files of
\* one folder, hence with different names.
Selections ==
  {sel \in UNION {[1..n -> FileUniverse] : n \in 1..MaxSelect} :
     \A i, j \in DOMAIN sel : i # j => sel[i].name # sel[j].name}

\* App.handleFilesChange
handleFilesChange(newFiles) ==
  /\ files' = newFiles
  /\ toast' = IF \E i \in DOMAIN newFiles : IsInvalidFile(newFiles[i])
              THEN "File Validation Warning" ELSE ""
  /\ UNCHANGED <<state, analyses>>

\* onFilesChange as the two versions of the upload screen call it
AddPicked(picked) ==
  LET validFiles == ValidFiles(uploadVersion, files, picked)
  IN /\ Len(files) + Len(validFiles) <= MaxFiles
     /\ IF uploadVersion = "part_001" /\ Len(validFiles) = 0
        THEN /\ toast' = ""
             /\ UNCHANGED <<state, files, analyses>>
        ELSE handleFilesChange(files \o validFiles)
     /\ UNCHANGED <<versionVars, extraction, dashboard, reportVars, engineVars, runs, completeCalls>>

handleFileSelect ==
  /\ state = "upload"
  /\ \E picked \in Selections : AddPicked(picked)

handleDrop ==
  /\ state = "upload"
  /\ \E picked \in Selections : AddPicked(picked)

Without(s, r) == [k \in 1..(Len(s) - 1) |-> IF k < r THEN s[k] ELSE s[k + 1]]

removeFile ==
  /\ state = "upload"
  /\ \E index \in DOMAIN files : handleFilesChange(Without(files, index))
  /\ UNCHANGED <<versionVars, extraction, dashboard, reportVars, engineVars, runs, completeCalls>>

\* one document taken as enough
MinDocumentsOne == 2 - 1

MinDocuments == 2
MinFilesForButton == 2

\* {files.length >= 2 && (<Button onClick={onAnalyze} ...>)}
AnalyzeButtonShown == Len(files) >= MinFilesForButton

\* App.handleStartAnalysis, whoever calls it; entering 'analyzing' mounts the
\* engine, whose effect has not run yet
StartAnalysisCalled ==
  /\ state = "upload"
  /\ IF Len(files) < MinDocuments
     THEN /\ toast' = "Insufficient Documents"
          /\ UNCHANGED <<state, depsChanged, completeCalls>>
     ELSE /\ state' = "analyzing"
          /\ toast' = ""
          /\ depsChanged' = TRUE
          /\ completeCalls' = 0
  /\ UNCHANGED <<versionVars, extraction, dashboard, reportVars, files, analyses, currentStep, progress,
                 engineAnalyses, runs>>

\* a click on the analyze button, which calls App.handleStartAnalysis
handleStartAnalysis == AnalyzeButtonShown /\ StartAnalysisCalled

(***************************************************************************)
(* Document analysis aggregator (AnalysisEngine)                           *)
(***************************************************************************)
\* a failed analysis that carries no message
FailedWithoutMessage(file, message) ==
  [fileName |-> file.name, extractedFigures |-> <<>>,
   extractionStatus |-> "failed", errorMessage |-> <<>>]

\* errorMessage is <<>> when undefined and <<message>> when defined
FailedAnalysis(file, message) ==
  [fileName |-> file.name, extractedFigures |-> <<>>,
   extractionStatus |-> "failed", errorMessage |-> <<message>>]

\* the three throws that open the try block of AnalysisEngine.tsx; part_000
\* has none. <<>> when the file passes.
ValidationError(version, file) ==
  IF version # "AnalysisEngine" THEN <<>>
  ELSE IF file.size = 0 THEN <<"Invalid file">>
  ELSE IF file.size > MaxFileSize THEN <<"File too large">>
  ELSE IF Extension(file.name) \notin SupportedExtensions
    THEN <<"Unsupported file type">>
  ELSE <<>>

\* extractFinancialFigures is pure (useCallback with no deps): its results
\* over the texts and file names of the model, computed once
FiguresOf ==
  [text \in Texts |->
     [name \in {f.name : f \in FileUniverse} |->
        extractFinancialFigures(text, name)]]

\* analyzeDocument without its blank-text check
AnalysisWithoutBlankCheck(version, file, text) ==
  LET figures == FiguresOf[text][file.name]
  IN [fileName |-> file.name,
      extractedFigures |-> figures,
      extractionStatus |-> IF Len(figures) > 0 THEN "success" ELSE "partial",
      errorMessage |-> IF Len(figures) = 0
                       THEN <<"No financial figures found in document">>
                       ELSE <<>>]

\* the return of analyzeDocument without the errorMessage of a document that
\* holds no figures
AnalysisOfTextSilent(version, file, text) ==
  IF IsBlank(text)
  THEN FailedAnalysis(file, "No readable text content found")
  ELSE [fileName |-> file.name,
        extractedFigures |-> FiguresOf[text][file.name],
        extractionStatus |-> IF Len(FiguresOf[text][file.name]) > 0
                             THEN "success" ELSE "partial",
        errorMessage |-> <<>>]

\* from the blank-text check to the return of analyzeDocument
AnalysisOfText(version, file, text) ==
  IF IsBlank(text)
  THEN FailedAnalysis(file, IF version = "AnalysisEngine"
                            THEN "No readable text content found"
                            ELSE "No text content found")
  ELSE LET figures == FiguresOf[text][file.name]
       IN [fileName |-> file.name,
           extractedFigures |-> figures,
           extractionStatus |-> IF Len(figures) > 0 THEN "success" ELSE "partial",
           errorMessage |-> IF Len(figures) = 0
                            THEN <<"No financial figures found in document">>
                            ELSE <<>>]

\* the catch of both extraction methods
ExtractionFailed(version, file) ==
  FailedAnalysis(file, IF version = "AnalysisEngine"
                       THEN "Unable to extract content"
                       ELSE "Failed to extract content")

\* What the storage collaborator can throw: an Error with a message, or
\* another value.
RaisedValues == {<<"Error", "storage unavailable">>, <<"value", "">>}
\* error instanceof Error ? error.message : 'Unknown error occurred'
ErrorMessageOf(raised) ==
  IF raised[1] = "Error" THEN raised[2] ELSE "Unknown error occurred"

\* a call of a collaborator: out is "pending" while it is in flight, then
\* "ok" (with the text it returned, for an extraction) or "raise"
Call(kind) == [kind |-> kind, out |-> "pending", text |-> <<>>]
Settled(calls, out, text) ==
  [calls EXCEPT ![Len(calls)] = [@ EXCEPT !.out = out, !.text = text]]

\* A run of startAnalysis: the files it closed over, the loop index i
\* (1-based), where it waits, its results, and the collaborator calls made
\* for document i so far (history).
NewRun == [files |-> files, i |-> 0, pc |-> "start", results |-> <<>>, calls |-> <<>>]

Mounted == state = "analyzing"

\* The run after analyzeDocument settled with the analysis: startAnalysis
\* resumes, pushes it and waits 500 ms
Produce(run, calls, analysis) ==
  [run EXCEPT !.pc = "pause", !.calls = calls, !.results = Append(@, analysis)]

\* setAnalyses(prev => [...prev, analysis]), a no-op once unmounted
setAnalyses(analysis) ==
  engineAnalyses' = IF Mounted THEN Append(engineAnalyses, analysis)
                    ELSE engineAnalyses

\* The run after analyzeDocument(files[idx - 1], idx - 1) ran up to its
\* first await: the validation, then the call of the storage collaborator.
\* A file that fails the validation is settled at once.
BeginDocument(run, idx) ==
  LET file == run.files[idx]
      verr == ValidationError(engineVersion, file)
      next == [run EXCEPT !.i = idx]
  IN IF verr # <<>>
     THEN [next EXCEPT !.pc = "pause", !.calls = <<>>,
                       !.results = Append(@, FailedAnalysis(file, verr[1]))]
     ELSE [next EXCEPT !.pc = "upload", !.calls = <<Call("upload")>>]

\* What the engine shows when the run begins document idx: setCurrentStep,
\* setProgress and, for a document settled at once, setAnalyses. shown is
\* the engine's analyses state before.
ShowDocument(began, idx, shown) ==
  /\ currentStep' = IF Mounted THEN idx ELSE currentStep
  /\ progress' = IF Mounted THEN <<idx * 100, Len(files)>> ELSE progress
  /\ engineAnalyses' = IF Mounted /\ began.pc = "pause"
                       THEN Append(shown, Last(began.results))
                       ELSE IF Mounted THEN shown ELSE engineAnalyses

\* if (files.length > 2)
MinFilesExclusive == 2 + 1

MinFilesToStart == 2

\* an effect without a dependency list runs after every render
EffectAlways == TRUE

\* React runs the effect after a render only if one of its deps
\* [files, startAnalysis] changed since its last run (always after mounting)
EffectDue == depsChanged

\* A render of the mounted engine, followed by its effect when that is due:
\* if (files.length >= 2) startAnalysis()
EngineRender ==
  /\ Mounted
  /\ depsChanged' = FALSE
  /\ IF EffectDue /\ Len(files) >= MinFilesToStart
     THEN /\ runs' = Append(runs, BeginDocument(NewRun, 1))
          /\ ShowDocument(BeginDocument(NewRun, 1), 1, <<>>)
     ELSE UNCHANGED <<currentStep, progress, engineAnalyses, runs>>
  /\ toast' = ""
  /\ UNCHANGED <<versionVars, extraction, dashboard, reportVars, state, files, analyses, completeCalls>>

\* blink.storage.upload resolves
UploadReturns ==
  \E r \in DOMAIN runs :
    /\ runs[r].pc = "upload"
    /\ LET calls == Settled(runs[r].calls, "ok", <<>>)
       IN runs' = [runs EXCEPT ![r] =
                     IF engineVersion = "AnalysisEngine"
                     THEN [@ EXCEPT !.pc = "delay", !.calls = calls]
                     ELSE [@ EXCEPT !.pc = "url",
                                    !.calls = Append(calls, Call("url"))]]
    /\ toast' = ""
    /\ UNCHANGED <<versionVars, extraction, dashboard, reportVars, state, files, analyses, engineVars, completeCalls>>

\* blink.storage.upload rejects: AnalysisEngine.tsx catches it with the URL
\* extraction and tries the blob; part_000 fails the document
UploadRaises ==
  \E r \in DOMAIN runs, raised \in RaisedValues :
    /\ runs[r].pc = "upload"
    /\ LET calls == Settled(runs[r].calls, "raise", <<>>)
       IN IF engineVersion = "AnalysisEngine"
          THEN /\ runs' = [runs EXCEPT ![r] =
                             [@ EXCEPT !.pc = "blob",
                                       !.calls = Append(calls, Call("blob"))]]
               /\ UNCHANGED engineAnalyses
          ELSE LET analysis == FailedAnalysis(runs[r].files[runs[r].i],
                                              ErrorMessageOf(raised))
               IN /\ runs' = [runs EXCEPT ![r] = Produce(@, calls, analysis)]
                  /\ setAnalyses(analysis)
    /\ toast' = ""
    /\ UNCHANGED <<versionVars, extraction, dashboard, reportVars, state, files, analyses, currentStep, progress,
                   depsChanged, completeCalls>>

\* the 2000 ms wait of AnalysisEngine.tsx ends: extractFromUrl is called
DelayElapsed ==
  \E r \in DOMAIN runs :
    /\ runs[r].pc = "delay"
    /\ runs' = [runs EXCEPT ![r] =
                  [@ EXCEPT !.pc = "url", !.calls = Append(@, Call("url"))]]
    /\ toast' = ""
    /\ UNCHANGED <<versionVars, extraction, dashboard, reportVars, state, files, analyses, engineVars, completeCalls>>

\* extractFromUrl resolves, and a blank text sends the document to the blob
\* extraction
UrlReturnsFallingBack ==
  \E r \in DOMAIN runs, text \in Texts :
    /\ runs[r].pc = "url"
    /\ IF IsBlank(text)
       THEN /\ runs' = [runs EXCEPT ![r] =
                         [@ EXCEPT !.pc = "blob",
                                   !.calls = Append(Settled(@, "ok", text),
                                                    Call("blob"))]]
            /\ UNCHANGED engineAnalyses
       ELSE LET analysis ==
                  AnalysisOfText(engineVersion, runs[r].files[runs[r].i], text)
            IN /\ runs' = [runs EXCEPT ![r] =
                             Produce(@, Settled(@.calls, "ok", text), analysis)]
               /\ setAnalyses(analysis)
    /\ toast' = ""
    /\ UNCHANGED <<versionVars, extraction, dashboard, reportVars, state, files, analyses, currentStep, progress,
                   depsChanged, completeCalls>>

\* blink.data.extractFromUrl resolves with a text
UrlReturns ==
  \E r \in DOMAIN runs, text \in Texts :
    /\ runs[r].pc = "url"
    /\ LET analysis ==
             AnalysisOfText(engineVersion, runs[r].files[runs[r].i], text)
       IN /\ runs' = [runs EXCEPT ![r] =
                        Produce(@, Settled(@.calls, "ok", text), analysis)]
          /\ setAnalyses(analysis)
    /\ toast' = ""
    /\ UNCHANGED <<versionVars, extraction, dashboard, reportVars, state, files, analyses, currentStep, progress,
                   depsChanged, completeCalls>>

\* blink.data.extractFromUrl rejects: extractFromBlob is called
UrlRaises ==
  \E r \in DOMAIN runs :
    /\ runs[r].pc = "url"
    /\ runs' = [runs EXCEPT ![r] =
                  [@ EXCEPT !.pc = "blob",
                            !.calls = Append(Settled(@, "raise", <<>>), Call("blob"))]]
    /\ toast' = ""
    /\ UNCHANGED <<versionVars, extraction, dashboard, reportVars, state, files, analyses, engineVars, completeCalls>>

\* blink.data.extractFromBlob resolves with a text
BlobReturns ==
  \E r \in DOMAIN runs, text \in Texts :
    /\ runs[r].pc = "blob"
    /\ LET analysis ==
             AnalysisOfText(engineVersion, runs[r].files[runs[r].i], text)
       IN /\ runs' = [runs EXCEPT ![r] =
                        Produce(@, Settled(@.calls, "ok", text), analysis)]
          /\ setAnalyses(analysis)
    /\ toast' = ""
    /\ UNCHANGED <<versionVars, extraction, dashboard, reportVars, state, files, analyses, currentStep, progress,
                   depsChanged, completeCalls>>

\* blink.data.extractFromBlob rejects
BlobRaises ==
  \E r \in DOMAIN runs :
    /\ runs[r].pc = "blob"
    /\ LET analysis == ExtractionFailed(engineVersion, runs[r].files[runs[r].i])
       IN /\ runs' = [runs EXCEPT ![r] =
                        Produce(@, Settled(@.calls, "raise", <<>>), analysis)]
          /\ setAnalyses(analysis)
    /\ toast' = ""
    /\ UNCHANGED <<versionVars, extraction, dashboard, reportVars, state, files, analyses, currentStep, progress,
                   depsChanged, completeCalls>>

\* a completion toast that tests failedCount first
CompletionToastFailedFirst(results) ==
  LET count(status) ==
        Cardinality({i \in DOMAIN results : results[i].extractionStatus = status})
  IN IF count("failed") > 0 THEN "Analysis Partially Complete"
     ELSE IF count("success") = 0 /\ count("partial") = 0 THEN "Analysis Failed"
     ELSE "Analysis Complete"

\* the title of the toast of App.handleAnalysisComplete
CompletionToast(results) ==
  LET count(status) ==
        Cardinality({i \in DOMAIN results : results[i].extractionStatus = status})
  IN IF count("success") = 0 /\ count("partial") = 0 THEN "Analysis Failed"
     ELSE IF count("failed") > 0 THEN "Analysis Partially Complete"
     ELSE "Analysis Complete"

\* the loop of startAnalysis stops at the first failed document
LoopContinuesUntilFailure(run) ==
  /\ run.i < Len(run.files)
  /\ Last(run.results).extractionStatus # "failed"

\* for (let i = 0; i < files.length; i++), tested after the i++ that follows
\* the 500 ms wait
LoopContinues(run) == run.i < Len(run.files)

\* The 500 ms wait after a document ends: the loop goes on to the next file,
\* or calls onAnalysisComplete(results) (App.handleAnalysisComplete), which
\* shows the report and so unmounts the engine.
PauseElapsed ==
  \E r \in DOMAIN runs :
    /\ runs[r].pc = "pause"
    /\ IF LoopContinues(runs[r])
       THEN /\ runs' = [runs EXCEPT ![r] = BeginDocument(@, @.i + 1)]
            /\ ShowDocument(BeginDocument(runs[r], runs[r].i + 1),
                            runs[r].i + 1, engineAnalyses)
            /\ toast' = ""
            /\ UNCHANGED <<state, files, analyses, depsChanged, completeCalls>>
       ELSE /\ runs' = Without(runs, r)
            /\ analyses' = runs[r].results
            /\ state' = "report"
            /\ toast' = CompletionToast(runs[r].results)
            /\ completeCalls' = completeCalls + 1
            /\ currentStep' = 0
            /\ progress' = <<0, 1>>
            /\ engineAnalyses' = <<>>
            /\ depsChanged' = FALSE
            /\ UNCHANGED files
    /\ UNCHANGED <<versionVars, extraction, dashboard, reportVars>>

\* a start-over that forgets setAnalyses([])
StartOverKeepingAnalyses ==
  /\ state = "report"
  /\ files' = <<>>
  /\ state' = "upload"
  /\ toast' = ""
  /\ completeCalls' = 0
  /\ UNCHANGED <<versionVars, extraction, dashboard, reportVars, engineVars, runs,
                 analyses>>

\* App.handleStartOver
handleStartOver ==
  /\ state = "report"
  /\ files' = <<>>
  /\ analyses' = <<>>
  /\ state' = "upload"
  /\ toast' = ""
  /\ completeCalls' = 0
  /\ UNCHANGED <<versionVars, extraction, dashboard, reportVars, engineVars, runs>>

Next ==
  \/ handleFileSelect
  \/ handleDrop
  \/ removeFile
  \/ handleStartAnalysis
  \/ EngineRender
  \/ UploadReturns
  \/ UploadRaises
  \/ DelayElapsed
  \/ UrlReturns
  \/ UrlRaises
  \/ BlobReturns
  \/ BlobRaises
  \/ PauseElapsed
  \/ handleStartOver

Spec == Init /\ [][Next]_vars

(***************************************************************************)
(* Fairness: every collaborator call settles, every timer fires and React  *)
(* renders a mounted component and runs its pending effect                 *)
(***************************************************************************)
Fairness ==
  /\ WF_vars(EngineRender)
  /\ WF_vars(UploadReturns \/ UploadRaises)
  /\ WF_vars(DelayElapsed)
  /\ WF_vars(UrlReturns \/ UrlRaises)
  /\ WF_vars(BlobReturns \/ BlobRaises)
  /\ WF_vars(PauseElapsed)

FairSpec == Init /\ [][Next]_vars /\ Fairness

\* The App whose handleStartAnalysis is also called while the upload screen
\* shows no analyze button: the handler's own test of files.length
RequestNext ==
  \/ Next
  \/ StartAnalysisCalled

RequestSpec == Init /\ [][RequestNext]_vars

(***************************************************************************)
(* Document analysis of AnalysisDashboard                                  *)
(***************************************************************************)
\* the session with AnalysisDashboard built as the analysis screen
DashboardInit ==
  /\ uploadVersion \in {"DocumentUpload", "part_001"}
  /\ engineVersion = "AnalysisDashboard"
  /\ state = "upload"
  /\ files = <<>>
  /\ analyses = <<>>
  /\ toast = ""
  /\ currentStep = 0
  /\ progress = <<0, 1>>
  /\ engineAnalyses = <<>>
  /\ depsChanged = FALSE
  /\ runs = <<>>
  /\ completeCalls = 0
  /\ dashboard = DashboardUnmounted
  /\ report = <<>>
  /\ download = <<>>
  /\ extraction = <<>>

\* the texts the extraction collaborator returns to AnalysisDashboard
DashboardTexts == {TextMemo, TextRev1000, TextRev1200, TextRevZero, TextEarnings}

\* the texts a run can hand to the extractor: those of the collaborator and
\* the sample data of each file
ExtractorInputs ==
  DashboardTexts \cup
    {SampleText(f.name, i) : f \in FileUniverse, i \in 0..(MaxFiles - 1)}

\* extractFinancialFigures is pure (useCallback with no deps): its results
\* over the texts and file names of the model, computed once
DashboardFiguresOf ==
  [text \in ExtractorInputs |->
     [name \in {f.name : f \in FileUniverse} |->
        DashboardExtractFinancialFigures(text, name)]]

dashboardFrame ==
  <<versionVars, extraction, reportVars, files, analyses, engineVars, runs>>

\* The analyze button of the upload screen: the session shows
\* AnalysisDashboard with the files of the upload list
onAnalyze ==
  /\ state = "upload"
  /\ AnalyzeButtonShown
  /\ state' = "analyzing"
  /\ toast' = ""
  /\ completeCalls' = 0
  /\ dashboard' = [DashboardUnmounted EXCEPT !.pc = "mounted"]
  /\ UNCHANGED dashboardFrame

\* The head of the loop for the file idx (1-based), up to the wait before
\* its upload; after the last file, the steps up to the wait that follows
\* the loop
NextDocument(d, idx) ==
  IF idx <= Len(files)
  THEN [d EXCEPT !.i = idx, !.currentStep = 0,
                 !.progress = <<(idx - 1) * 80, Len(files)>>,
                 !.pc = "upload_wait"]
  ELSE [d EXCEPT !.currentStep = 3, !.progress = <<80, 1>>, !.pc = "cross_wait"]

\* analyzeDocuments from its call to its first await
BeginRun(d) ==
  NextDocument([d EXCEPT !.error = <<>>, !.allExtractedData = <<>>,
                         !.sampled = {}, !.report = <<>>], 1)

\* useEffect(() => { analyzeDocuments() }, [analyzeDocuments]) after the
\* dashboard is mounted
DashboardEffect ==
  /\ state = "analyzing"
  /\ dashboard.pc = "mounted"
  /\ dashboard' = BeginRun(dashboard)
  /\ toast' = ""
  /\ UNCHANGED <<dashboardFrame, state, completeCalls>>

\* the 1000 ms wait before the upload ends: blink.storage.upload is called
UploadDelayElapsed ==
  /\ dashboard.pc = "upload_wait"
  /\ dashboard' = [dashboard EXCEPT !.pc = "upload"]
  /\ toast' = ""
  /\ UNCHANGED <<dashboardFrame, state, completeCalls>>

\* blink.storage.upload resolves; the 1500 ms wait begins
DashboardUploadReturns ==
  /\ dashboard.pc = "upload"
  /\ dashboard' = [dashboard EXCEPT
                     !.currentStep = 1,
                     !.progress = <<(@[1]) + 10 * Len(files), Len(files)>>,
                     !.pc = "extract_wait"]
  /\ toast' = ""
  /\ UNCHANGED <<dashboardFrame, state, completeCalls>>

\* blink.storage.upload rejects: the catch of analyzeDocuments ends the run
DashboardUploadRaises ==
  /\ dashboard.pc = "upload"
  /\ dashboard' = [dashboard EXCEPT
                     !.error = <<"Analysis failed">>,
                     !.isAnalyzing = FALSE,
                     !.pc = "done"]
  /\ toast' = ""
  /\ UNCHANGED <<dashboardFrame, state, completeCalls>>

\* the 1500 ms wait ends: blink.data.extractFromUrl is called
ExtractDelayElapsed ==
  /\ dashboard.pc = "extract_wait"
  /\ dashboard' = [dashboard EXCEPT !.pc = "url"]
  /\ toast' = ""
  /\ UNCHANGED <<dashboardFrame, state, completeCalls>>

\* extractedText is settled for the file; the 1000 ms wait before the
\* figure extraction begins
TextSettled(d, text, isSample) ==
  [d EXCEPT !.extractedText = text,
            !.sampled = IF isSample THEN @ \cup {d.i} ELSE @,
            !.currentStep = 2,
            !.progress = <<(d.i - 1) * 80 + 20 * Len(files), Len(files)>>,
            !.pc = "figures_wait"]

\* blink.data.extractFromUrl resolves with a text
DashboardUrlReturns ==
  /\ dashboard.pc = "url"
  /\ \E text \in DashboardTexts : dashboard' = TextSettled(dashboard, text, FALSE)
  /\ toast' = ""
  /\ UNCHANGED <<dashboardFrame, state, completeCalls>>

\* blink.data.extractFromUrl rejects: blink.data.extractFromBlob is called
DashboardUrlRaises ==
  /\ dashboard.pc = "url"
  /\ dashboard' = [dashboard EXCEPT !.pc = "blob"]
  /\ toast' = ""
  /\ UNCHANGED <<dashboardFrame, state, completeCalls>>

\* blink.data.extractFromBlob resolves with a text
DashboardBlobReturns ==
  /\ dashboard.pc = "blob"
  /\ \E text \in DashboardTexts : dashboard' = TextSettled(dashboard, text, FALSE)
  /\ toast' = ""
  /\ UNCHANGED <<dashboardFrame, state, completeCalls>>

\* blink.data.extractFromBlob rejects: the sample financial data of the
\* file becomes its text
DashboardBlobRaises ==
  /\ dashboard.pc = "blob"
  /\ dashboard' = TextSettled(dashboard,
                              SampleText(files[dashboard.i].name, dashboard.i - 1),
                              TRUE)
  /\ toast' = ""
  /\ UNCHANGED <<dashboardFrame, state, completeCalls>>

\* The 1000 ms wait ends: the figures of the text are extracted and stored
\* under the file name, and the loop goes on
FiguresDelayElapsed ==
  /\ dashboard.pc = "figures_wait"
  /\ LET fileName == files[dashboard.i].name
         figures == DashboardFiguresOf[dashboard.extractedText][fileName]
     IN dashboard' =
          NextDocument([dashboard EXCEPT
                          !.allExtractedData = DataSet(@, fileName, figures)],
                       dashboard.i + 1)
  /\ toast' = ""
  /\ UNCHANGED <<dashboardFrame, state, completeCalls>>

\* the 1500 ms wait after the loop ends
CrossDelayElapsed ==
  /\ dashboard.pc = "cross_wait"
  /\ dashboard' = [dashboard EXCEPT !.currentStep = 4, !.progress = <<95, 1>>,
                                    !.pc = "report_wait"]
  /\ toast' = ""
  /\ UNCHANGED <<dashboardFrame, state, completeCalls>>

\* The 1000 ms wait ends: without any figure the run ends with an error,
\* otherwise the report is built
ReportDelayElapsed ==
  /\ dashboard.pc = "report_wait"
  /\ dashboard' =
       IF TotalFigures(dashboard.allExtractedData) = 0
       THEN [dashboard EXCEPT !.extractedData = dashboard.allExtractedData,
                              !.error = <<"No financial figures were found">>,
                              !.isAnalyzing = FALSE,
                              !.pc = "done"]
       ELSE [dashboard EXCEPT !.extractedData = dashboard.allExtractedData,
                              !.report = <<DashboardReport(files,
                                             dashboard.allExtractedData)>>,
                              !.progress = <<100, 1>>,
                              !.pc = "final_wait"]
  /\ toast' = ""
  /\ UNCHANGED <<dashboardFrame, state, completeCalls>>

\* the 500 ms wait ends: onAnalysisComplete(report), and the session shows
\* the report
FinalDelayElapsed ==
  /\ dashboard.pc = "final_wait"
  /\ dashboard' = [dashboard EXCEPT !.isAnalyzing = FALSE, !.pc = "done"]
  /\ state' = "report"
  /\ completeCalls' = completeCalls + 1
  /\ toast' = ""
  /\ UNCHANGED dashboardFrame

\* the Try Again button of the error screen
TryAgain ==
  /\ state = "analyzing"
  /\ dashboard.error # <<>>
  /\ dashboard' = BeginRun([dashboard EXCEPT !.isAnalyzing = TRUE])
  /\ toast' = ""
  /\ UNCHANGED <<dashboardFrame, state, completeCalls>>

DashboardNext ==
  \/ handleFileSelect
  \/ handleDrop
  \/ removeFile
  \/ onAnalyze
  \/ DashboardEffect
  \/ UploadDelayElapsed
  \/ DashboardUploadReturns
  \/ DashboardUploadRaises
  \/ ExtractDelayElapsed
  \/ DashboardUrlReturns
  \/ DashboardUrlRaises
  \/ DashboardBlobReturns
  \/ DashboardBlobRaises
  \/ FiguresDelayElapsed
  \/ CrossDelayElapsed
  \/ ReportDelayElapsed
  \/ FinalDelayElapsed
  \/ TryAgain

DashboardSpec == DashboardInit /\ [][DashboardNext]_vars

(***************************************************************************)
(* Report screen (CrossCheckReport and the exports of App)                 *)
(***************************************************************************)
\* the documents of the report screen in the model: three file names, each
\* with the analyses analyzeDocument returns for the texts of the model
ReportFiles == {FileA1, FileB, File(<<"e", "docx">>, 1000)}
ReportDocuments ==
  {AnalysisOfText("AnalysisEngine", f, text) : f \in ReportFiles, text \in Texts}

MaxReportDocs == 3

\* The report screen over a list of analyses: any list of one to
\* MaxReportDocs documents, names shared or not
ReportInit ==
  /\ uploadVersion = "DocumentUpload"
  /\ engineVersion = "AnalysisEngine"
  /\ state = "report"
  /\ files = <<>>
  /\ analyses \in UNION {[1..n -> ReportDocuments] : n \in 1..MaxReportDocs}
  /\ toast = ""
  /\ currentStep = 0
  /\ progress = <<0, 1>>
  /\ engineAnalyses = <<>>
  /\ depsChanged = FALSE
  /\ runs = <<>>
  /\ completeCalls = 1
  /\ dashboard = DashboardUnmounted
  /\ report = <<>>
  /\ download = <<>>
  /\ extraction = <<>>

reportFrame ==
  <<versionVars, extraction, dashboard, state, files, engineVars, runs,
    completeCalls>>

\* CrossCheckReport renders: its useMemo computes the report. The report
\* holds the analyses array itself (documentAnalyses: analyses), the array
\* of the state of App.
RenderReport ==
  /\ state = "report"
  /\ report' = <<Report(analyses)>>
  /\ analyses' = report'[1].documentAnalyses
  /\ toast' = ""
  /\ UNCHANGED <<reportFrame, download>>

\* when an export happens, as new Date() tells it
Clock == {"t1", "t2"}

\* Object.entries(c.values).filter(([, value]) => value !== null)
PresentEntries(values) == SelectSeq(values, LAMBDA e : e.present)

ExportDiscrepancyCap == 10

ReportCategories == <<"Income Statement", "Balance Sheet", "Cash Flow Statement">>

\* The lines of generateReportContent, as the values they are built from
generateReportContent(list, now) ==
  LET allComparisons == generateComparisons(list)
      consistentCount == Len(ConsistentIdx(allComparisons))
      discrepancyCount == Len(allComparisons) - consistentCount
      key == Slice(InconsistentIdx(allComparisons), ExportDiscrepancyCap)
      used == SelectSeq(ReportCategories,
                        LAMBDA category :
                          \E k \in DOMAIN allComparisons :
                            allComparisons[k].category = category)
  IN [generated |-> now,
      documentsAnalyzed |-> Len(list),
      totalComparisons |-> Len(allComparisons),
      consistentCount |-> consistentCount,
      discrepancyCount |-> discrepancyCount,
      keyDiscrepancies |->
        IF discrepancyCount > 0
        THEN [k \in DOMAIN key |->
                [field |-> allComparisons[key[k]].field,
                 year |-> allComparisons[key[k]].year,
                 docValues |-> PresentEntries(allComparisons[key[k]].values)]]
        ELSE <<>>,
      detailed |->
        [c \in DOMAIN used |->
           [category |-> used[c],
            comparisons |-> SelectSeq(allComparisons,
                                      LAMBDA x : x.category = used[c])]]]

\* c.values[name] !== null ? c.values[name].toString() : ''
CsvCell(values, name) ==
  LET hit == CHOOSE i \in DOMAIN values : values[i].doc = name
  IN IF values[hit].present THEN <<values[hit].value>> ELSE <<>>

\* the header and the rows of generateCSVContent
generateCSVContent(list) ==
  LET documentNames == [i \in DOMAIN list |-> list[i].fileName]
      comparisons == generateComparisons(list)
  IN [header |-> documentNames,
      rows |-> [k \in DOMAIN comparisons |->
                  [year |-> comparisons[k].year,
                   field |-> comparisons[k].field,
                   category |-> comparisons[k].category,
                   cells |-> [i \in DOMAIN documentNames |->
                                CsvCell(comparisons[k].values, documentNames[i])],
                   consistent |-> comparisons[k].consistent]]]

\* App.handleExportPDF; comparisons (history) holds what generateComparisons
\* returned to it
handleExportPDF ==
  /\ state = "report"
  /\ \E now \in Clock :
       download' = [kind |-> "txt", date |-> now,
                    content |-> generateReportContent(analyses, now),
                    comparisons |-> generateComparisons(analyses)]
  /\ toast' = "Report Exported"
  /\ UNCHANGED <<reportFrame, analyses, report>>

\* App.handleExportExcel
handleExportExcel ==
  /\ state = "report"
  /\ \E now \in Clock :
       download' = [kind |-> "csv", date |-> now,
                    content |-> generateCSVContent(analyses),
                    comparisons |-> generateComparisons(analyses)]
  /\ toast' = "Data Exported"
  /\ UNCHANGED <<reportFrame, analyses, report>>

ReportNext ==
  \/ RenderReport
  \/ handleExportPDF
  \/ handleExportExcel

ReportSpec == ReportInit /\ [][ReportNext]_vars

(***************************************************************************)
(* The report screen over documents with many figures                      *)
(***************************************************************************)
\* Two documents that hold a figure for each of WideFields x WideYears, in
\* the order of the table or in the reverse order. Pair p (1..WidePairs) is
\* field (p - 1) \div 3 + 1 and year (p - 1) % 3 + 1.
WideFields == SubSeq(Patterns, 1, 4)
WideYears == <<2024, 2023, 2022>>
WidePairs == Len(WideFields) * Len(WideYears)

\* the figure the extractor pushes for pair p with the given value
WideFigure(fileName, p, value) ==
  LET entry == WideFields[((p - 1) \div Len(WideYears)) + 1]
  IN [category |-> entry.category,
      year |-> WideYears[((p - 1) % Len(WideYears)) + 1],
      value |-> value,
      label |-> entry.field,
      documentName |-> fileName,
      location |-> Location(fileName, 0),
      confidence |-> BaseConfidence]

\* the analysis of a document whose k-th figure is that of pair order[k]
WideAnalysis(fileName, order, values) ==
  [fileName |-> fileName,
   extractedFigures |->
     [k \in DOMAIN order |-> WideFigure(fileName, order[k], values[order[k]])],
   extractionStatus |-> "success",
   errorMessage |-> <<>>]

WideBaseValue == 100 * 100

WideOrders ==
  {[k \in 1..WidePairs |-> k], [k \in 1..WidePairs |-> WidePairs + 1 - k]}

\* the sets of pairs on which the two documents differ
WideDifferences ==
  {{p \in lo..hi : (p - lo) % step = 0} :
     lo \in 1..3, hi \in {0, 4, 6, 7, 11, 12}, step \in 1..2}

\* The report screen over two such documents: the second differs from the
\* first on the pairs of a set, by an amount that grows or shrinks with p
WideReportInit ==
  /\ uploadVersion = "DocumentUpload"
  /\ engineVersion = "AnalysisEngine"
  /\ state = "report"
  /\ files = <<>>
  /\ \E orderA \in WideOrders, orderB \in WideOrders,
        differ \in WideDifferences, growing \in BOOLEAN :
       analyses =
         << WideAnalysis(FileA1.name, orderA,
                         [p \in 1..WidePairs |-> WideBaseValue]),
            WideAnalysis(FileB.name, orderB,
                         [p \in 1..WidePairs |->
                            IF p \in differ
                            THEN WideBaseValue
                                 + 100 * (IF growing THEN p ELSE WidePairs + 1 - p)
                            ELSE WideBaseValue]) >>
  /\ toast = ""
  /\ currentStep = 0
  /\ progress = <<0, 1>>
  /\ engineAnalyses = <<>>
  /\ depsChanged = FALSE
  /\ runs = <<>>
  /\ completeCalls = 1
  /\ dashboard = DashboardUnmounted
  /\ report = <<>>
  /\ download = <<>>
  /\ extraction = <<>>

WideReportSpec == WideReportInit /\ [][ReportNext]_vars

(***************************************************************************)
(* The figure extractor of AnalysisEngine on its own                       *)
(***************************************************************************)
\* the four characters of a year, nothing for 0
YearChars(year) == IF year = 0 THEN <<>> ELSE Chars(DigitsOf(year))

\* The texts given to the extractor: "Revenue: 5" with up to two years before
\* it and up to two after it, separated by runs of filler characters:
\*   yA pad(a) yB pad(b) "Revenue: 5" pad(c) yC pad(d) yD
LayoutText(l) ==
  YearChars(l.yA) \o <<Pad(l.a)>> \o YearChars(l.yB) \o <<Pad(l.b)>>
  \o <<W("Revenue")>> \o Chars(<<":", " ", "5">>) \o <<Pad(l.c)>>
  \o YearChars(l.yC) \o <<Pad(l.d)>> \o YearChars(l.yD)

LayoutYears == {0, 2021, 2022}
LayoutGapsA == {50, 250}
LayoutGapsB == {10, 150, 350}
LayoutGapsC == {5, 280, 400}
LayoutGapsD == {5}

Layouts ==
  [yA : LayoutYears, a : LayoutGapsA, yB : LayoutYears, b : LayoutGapsB,
   c : LayoutGapsC, yC : LayoutYears, d : LayoutGapsD, yD : LayoutYears]

\* extractFinancialFigures is about to be called on a text
ExtractorInit ==
  /\ uploadVersion = "DocumentUpload"
  /\ engineVersion = "AnalysisEngine"
  /\ state = "upload"
  /\ files = <<>>
  /\ analyses = <<>>
  /\ toast = ""
  /\ currentStep = 0
  /\ progress = <<0, 1>>
  /\ engineAnalyses = <<>>
  /\ depsChanged = FALSE
  /\ runs = <<>>
  /\ completeCalls = 0
  /\ dashboard = DashboardUnmounted
  /\ report = <<>>
  /\ download = <<>>
  /\ \E l \in Layouts :
       extraction = [pc |-> "called", text |-> LayoutText(l),
                     fileName |-> FileA1.name, figures |-> <<>>]

\* extractFinancialFigures(text, fileName) returns its figures
ExtractFigures ==
  /\ extraction.pc = "called"
  /\ extraction' =
       [extraction EXCEPT !.pc = "returned",
                          !.figures = extractFinancialFigures(extraction.text,
                                                              extraction.fileName)]
  /\ UNCHANGED <<versionVars, dashboard, reportVars, state, files, analyses,
                 toast, engineVars, runs, completeCalls>>

ExtractorNext == ExtractFigures

ExtractorSpec == ExtractorInit /\ [][ExtractorNext]_vars

(***************************************************************************)
(* Properties                                                              *)
(***************************************************************************)
\* the runs whose current document has just been analysed: its analysis is
\* the last result and calls holds the collaborator calls made for it
Produced == {r \in DOMAIN runs : runs[r].pc = "pause"}
DocFile(r) == runs[r].files[runs[r].i]
DocAnalysis(r) == Last(runs[r].results)
Status(r) == DocAnalysis(r).extractionStatus

AnyRaised(calls) == \E c \in DOMAIN calls : calls[c].out = "raise"
ExtractionSucceeded(calls) ==
  \E c \in DOMAIN calls : calls[c].kind \in {"url", "blob"} /\ calls[c].out = "ok"
CalledKind(calls, kind) == \E c \in DOMAIN calls : calls[c].kind = kind
\* a text was obtained: the last call made for the document is an
\* extraction that returned
TextObtained(calls) ==
  /\ calls # <<>>
  /\ Last(calls).kind \in {"url", "blob"}
  /\ Last(calls).out = "ok"

\* C1: a failed document never aborts the batch: every run holds one result
\* per file it has gone through, in file order, and the results handed to
\* onAnalysisComplete are exactly one per file of the upload list, in order.
C1_BatchNeverAborts ==
  /\ \A r \in DOMAIN runs :
       /\ Len(runs[r].results) =
            IF runs[r].pc = "pause" THEN runs[r].i ELSE runs[r].i - 1
       /\ \A k \in DOMAIN runs[r].results :
            runs[r].results[k].fileName = runs[r].files[k].name
  /\ state = "report" =>
       /\ Len(analyses) = Len(files)
       /\ \A k \in DOMAIN analyses : analyses[k].fileName = files[k].name

\* a completed batch in which a failed document is followed by a document
\* that was analysed successfully
C1_Witness ==
  /\ state = "report"
  /\ completeCalls = 1
  /\ \E i, j \in DOMAIN analyses :
       /\ i < j
       /\ analyses[i].extractionStatus = "failed"
       /\ analyses[j].extractionStatus = "success"

\* C2 as stated: success iff figures non-empty, failed iff the upload or the
\* extraction raised, partial iff the extraction succeeded and no figure
\* matched.
C2_StatusAsStated ==
  \A r \in Produced :
    /\ Status(r) = "success" <=> DocAnalysis(r).extractedFigures # <<>>
    /\ Status(r) = "failed" <=> AnyRaised(runs[r].calls)
    /\ Status(r) = "partial" <=>
         (ExtractionSucceeded(runs[r].calls) /\ DocAnalysis(r).extractedFigures = <<>>)

\* C2 amended: success iff figures non-empty; failed iff no text was obtained
\* (no collaborator was called, or the last call made raised) or the text
\* obtained is blank; partial iff a non-blank text was obtained and no
\* figure matched.
C2_StatusInvariant ==
  \A r \in Produced :
    LET calls == runs[r].calls
        figures == DocAnalysis(r).extractedFigures
    IN /\ Status(r) \in {"success", "partial", "failed"}
       /\ Status(r) = "success" <=> figures # <<>>
       /\ Status(r) = "failed" <=>
            \/ calls = <<>>
            \/ Last(calls).out = "raise"
            \/ (TextObtained(calls) /\ IsBlank(Last(calls).text))
       /\ Status(r) = "partial" <=>
            /\ TextObtained(calls)
            /\ ~IsBlank(Last(calls).text)
            /\ figures = <<>>

\* a document analysed successfully although the URL extraction raised
C2_Witness ==
  \E r \in Produced :
    /\ Status(r) = "success"
    /\ AnyRaised(runs[r].calls)
    /\ Last(runs[r].calls).kind = "blob"

\* the documents of the list that hold a figure for the pair, and the value
\* each of them contributes (its first such figure)
DocsWithFigure(list, field, year) ==
  {i \in DOMAIN list : FindFigure(list[i].extractedFigures, field, year) # 0}
PresentValues(list, field, year) ==
  {list[i].extractedFigures[FindFigure(list[i].extractedFigures, field, year)].value :
     i \in DocsWithFigure(list, field, year)}

ComparisonAsStated(list, c) ==
  /\ Cardinality(DocsWithFigure(list, c.field, c.year)) >= 2
  /\ c.consistent <=> Cardinality(PresentValues(list, c.field, c.year)) = 1

\* C3 as stated: a comparison exists only for a pair for which at least two
\* documents hold a value, and it is consistent iff the values the
\* documents hold for the pair form a set of one element.
C3_ComparisonAsStated ==
  /\ \A k \in DOMAIN Comparisons(analyses) :
       ComparisonAsStated(analyses, Comparisons(analyses)[k])
  /\ \A k \in DOMAIN generateComparisons(analyses) :
       ComparisonAsStated(analyses, generateComparisons(analyses)[k])

\* C4 as stated: each pair of an observed field and an observed year yields
\* exactly one comparison when at least two documents hold a figure for it,
\* and none otherwise.
C4_OnePerQualifyingPair ==
  LET comparisons == Comparisons(analyses)
      fields == AllFields(analyses)
      years == AllYears(analyses)
  IN \A f \in DOMAIN fields, y \in DOMAIN years :
       Cardinality({k \in DOMAIN comparisons :
                      /\ comparisons[k].field = fields[f]
                      /\ comparisons[k].year = years[y]})
       = IF Cardinality(DocsWithFigure(analyses, fields[f], years[y])) >= 2
         THEN 1 ELSE 0

\* C5: in the report and in the export, discrepancyCount + consistentCount
\* = totalComparisons, consistentCount is the number of comparisons flagged
\* consistent and discrepancyCount the number flagged inconsistent.
C5_CountsAddUp ==
  LET comparisons == Comparisons(analyses)
      summary == Summary(comparisons)
      exported == generateComparisons(analyses)
      counts == ExportCounts(analyses)
      flagged(cs, flag) == Cardinality({k \in DOMAIN cs : cs[k].consistent = flag})
  IN /\ summary.totalComparisons = Len(comparisons)
     /\ summary.discrepancyCount + summary.consistentCount = summary.totalComparisons
     /\ summary.consistentCount = flagged(comparisons, TRUE)
     /\ summary.discrepancyCount = flagged(comparisons, FALSE)
     /\ counts.discrepancyCount + counts.consistentCount = counts.totalComparisons
     /\ counts.consistentCount = flagged(exported, TRUE)
     /\ counts.discrepancyCount = flagged(exported, FALSE)

\* a report that holds a consistent and an inconsistent comparison
C5_Witness ==
  /\ state = "report"
  /\ Summary(Comparisons(analyses)).consistentCount >= 1
  /\ Summary(Comparisons(analyses)).discrepancyCount >= 1

\* C6 as stated: for a file that passes validation the blob extraction is
\* called only after the URL attempt (upload, extractFromUrl) raised,
\* whenever that attempt raised the blob extraction is then called, and
\* the text it returns is what the figures are extracted from.
C6_UrlFirstThenBlob ==
  \A r \in DOMAIN runs :
    (runs[r].i >= 1 /\ ~IsInvalidFile(DocFile(r))) =>
      LET calls == runs[r].calls
      IN /\ \A c \in DOMAIN calls :
              calls[c].kind = "blob" =>
                \E b \in 1..(c - 1) :
                  calls[b].kind \in {"upload", "url"} /\ calls[b].out = "raise"
         /\ \A c \in DOMAIN calls :
              (calls[c].kind \in {"upload", "url"} /\ calls[c].out = "raise") =>
                \E b \in (c + 1)..Len(calls) : calls[b].kind = "blob"
         /\ (r \in Produced /\ TextObtained(calls) /\ Last(calls).kind = "blob"
               /\ ~IsBlank(Last(calls).text)) =>
              DocAnalysis(r).extractedFigures =
                extractFinancialFigures(Last(calls).text, DocFile(r).name)

\* C7 as stated: a blank text returned by the URL extraction sends the
\* document to the blob extraction, and a document is failed only if both
\* strategies raised.
C7_BlankFallsBackAsStated ==
  \A r \in Produced :
    LET calls == runs[r].calls
    IN /\ (\E c \in DOMAIN calls :
             calls[c].kind = "url" /\ calls[c].out = "ok" /\ IsBlank(calls[c].text))
            => CalledKind(calls, "blob")
       /\ Status(r) = "failed" =>
            /\ \E c \in DOMAIN calls :
                 calls[c].kind \in {"upload", "url"} /\ calls[c].out = "raise"
            /\ \E c \in DOMAIN calls : calls[c].kind = "blob" /\ calls[c].out = "raise"

\* C7 amended: the text the URL extraction returns is final, blank or not
\* (the blob extraction is called only after a call of the URL attempt
\* raised); a blank text fails the document; and a document is failed iff
\* no collaborator was called for it, the last call made for it raised, or
\* the text obtained is blank.
C7_BlankTextFails ==
  \A r \in DOMAIN runs :
    LET calls == runs[r].calls
    IN /\ (\E c \in DOMAIN calls : calls[c].kind = "url" /\ calls[c].out = "ok")
            => ~CalledKind(calls, "blob")
       /\ \A c \in DOMAIN calls :
            calls[c].kind = "blob" => (c > 1 /\ calls[c - 1].out = "raise")
       /\ r \in Produced =>
            /\ (TextObtained(calls) /\ IsBlank(Last(calls).text))
                 => (Status(r) = "failed" /\ DocAnalysis(r).errorMessage # <<>>)
            /\ Status(r) = "failed" <=>
                 \/ calls = <<>>
                 \/ Last(calls).out = "raise"
                 \/ IsBlank(Last(calls).text)

\* the URL extraction returned a blank text and the document is failed
\* without any call having raised and without a call of the blob extraction
C7_Witness ==
  \E r \in Produced :
    /\ runs[r].calls # <<>>
    /\ Last(runs[r].calls).kind = "url"
    /\ Last(runs[r].calls).out = "ok"
    /\ IsBlank(Last(runs[r].calls).text)
    /\ ~AnyRaised(runs[r].calls)
    /\ Status(r) = "failed"

\* the documents that have a collaborator call in flight
InFlight ==
  {<<r, runs[r].i>> : r \in {q \in DOMAIN runs :
                              \E c \in DOMAIN runs[q].calls :
                                runs[q].calls[c].out = "pending"}}

\* C8: documents are processed one at a time: calls of at most one document
\* are in flight, and while a document is being processed the analyses of
\* all files before it have been produced and recorded, in the results and
\* on the screen.
C8_OneDocumentAtATime ==
  /\ Cardinality(InFlight) <= 1
  /\ Len(runs) <= 1
  /\ \A r \in DOMAIN runs :
       runs[r].pc \in {"upload", "delay", "url", "blob"} =>
         /\ Len(runs[r].results) = runs[r].i - 1
         /\ engineAnalyses = runs[r].results

\* the upload of the second file is in flight, after the first was recorded
C8_Witness ==
  \E r \in DOMAIN runs :
    /\ runs[r].i = 2
    /\ runs[r].pc = "upload"
    /\ Len(engineAnalyses) = 1

\* C9: a started batch completes: onAnalysisComplete is called, once, and
\* the report is shown.
C9_BatchCompletes ==
  /\ [](completeCalls <= 1)
  /\ (state = "analyzing") ~> (state = "report" /\ completeCalls = 1)

\* a batch completed, with a failed document in it
C9_Witness ==
  /\ state = "report"
  /\ completeCalls = 1
  /\ runs = <<>>
  /\ \E k \in DOMAIN analyses : analyses[k].extractionStatus = "failed"

\* C10 as stated: for a file that is empty, over 50 MB or of an unsupported
\* type no collaborator is ever called, and its analysis is failed with a
\* message.
C10_InvalidFileNeverUploaded ==
  \A r \in DOMAIN runs :
    (runs[r].i >= 1 /\ IsInvalidFile(DocFile(r))) =>
      /\ runs[r].calls = <<>>
      /\ r \in Produced =>
           (Status(r) = "failed" /\ DocAnalysis(r).errorMessage # <<>>)

\* the message of the throw that follows a blank text, which stands before
\* the call of extractFinancialFigures
BlankTextMessages == {"No readable text content found", "No text content found"}

\* C11: whenever the text obtained for a document, from the URL or from the
\* blob extraction, is empty or whitespace-only, its analysis is failed,
\* has no figures and carries the message of the blank-text throw: the
\* figure extractor, which stands after that throw, was not run on the text.
C11_BlankTextNotExtracted ==
  \A r \in Produced :
    LET calls == runs[r].calls
    IN (TextObtained(calls)
          /\ \A p \in DOMAIN Last(calls).text :
               Last(calls).text[p].k = "c" /\ Last(calls).text[p].s \in WhiteSpace)
       => /\ Status(r) = "failed"
          /\ DocAnalysis(r).extractedFigures = <<>>
          /\ Len(DocAnalysis(r).errorMessage) = 1
          /\ DocAnalysis(r).errorMessage[1] \in BlankTextMessages
          /\ DocAnalysis(r).errorMessage[1] # ""

\* the blob extraction returned a whitespace-only text after the URL attempt
\* raised, and the document is failed
C11_Witness ==
  \E r \in Produced :
    /\ runs[r].calls # <<>>
    /\ Last(runs[r].calls).kind = "blob"
    /\ Last(runs[r].calls).out = "ok"
    /\ Last(runs[r].calls).text = TextSpaces
    /\ Status(r) = "failed"

\* the documents of the extracted data that hold a figure for the pair, and
\* the figure each of them contributes (its first for the pair)
HoldersOf(data, category, year) ==
  {i \in DOMAIN data :
     \E j \in DOMAIN data[i].figures :
       data[i].figures[j].category = category /\ data[i].figures[j].year = year}
PresentFigure(data, i, category, year) ==
  LET js == {j \in DOMAIN data[i].figures :
               data[i].figures[j].category = category
               /\ data[i].figures[j].year = year}
  IN data[i].figures[CHOOSE j \in js : \A k \in js : j <= k]
PresentValuesOf(data, category, year) ==
  {PresentFigure(data, i, category, year).value :
     i \in HoldersOf(data, category, year)}
Spread(values) ==
  (CHOOSE v \in values : \A w \in values : w <= v)
  - (CHOOSE v \in values : \A w \in values : v <= w)
CategoriesOf(data) ==
  UNION {{data[i].figures[j].category : j \in DOMAIN data[i].figures} :
           i \in DOMAIN data}
YearsOf(data) ==
  UNION {{data[i].figures[j].year : j \in DOMAIN data[i].figures} :
           i \in DOMAIN data}

\* the report handed over by a run of AnalysisDashboard that completed
ReportHandedOver ==
  engineVersion = "AnalysisDashboard" /\ state = "report"

\* C12: in the report of AnalysisDashboard, a pair (category, year) for
\* which at least two documents hold a value and the values are not all
\* equal has exactly one discrepancy and no match; its variance is the
\* largest minus the smallest of these values, hence positive, and it
\* lists, for every document that holds a value and for no other, its name,
\* value and location. A pair whose values (two or more) are all equal has
\* exactly one match and no discrepancy. The comparison table of
\* DiscrepancyReport flags the same pairs with the same variance.
C12_DiscrepancyPerUnequalPair ==
  ReportHandedOver =>
    LET handed == dashboard.report[1]
        data == handed.extractedFigures
        table == comparisonData(handed)
    IN \A category \in CategoriesOf(data), year \in YearsOf(data) :
         LET holders == HoldersOf(data, category, year)
             present == PresentValuesOf(data, category, year)
             ds == {k \in DOMAIN handed.discrepancies :
                      /\ handed.discrepancies[k].category = category
                      /\ handed.discrepancies[k].year = year}
             ms == {k \in DOMAIN handed.matches :
                      /\ handed.matches[k].category = category
                      /\ handed.matches[k].year = year}
             cells == UNION {{<<c, y>> : y \in {z \in DOMAIN table[c].cells :
                                                   table[c].cells[z].year = year}} :
                               c \in {b \in DOMAIN table :
                                        table[b].category = category}}
         IN /\ (Cardinality(holders) >= 2 /\ Cardinality(present) > 1) =>
                 /\ Cardinality(ds) = 1
                 /\ ms = {}
                 /\ \A k \in ds :
                      LET d == handed.discrepancies[k]
                      IN /\ d.variance = Spread(present)
                         /\ d.variance > 0
                         /\ Len(d.values) = Cardinality(holders)
                         /\ \A i \in holders :
                              \E v \in DOMAIN d.values :
                                /\ d.values[v].documentName = data[i].docName
                                /\ d.values[v].value =
                                     PresentFigure(data, i, category, year).value
                                /\ d.values[v].location =
                                     PresentFigure(data, i, category, year).location
            /\ (Cardinality(holders) >= 2 /\ Cardinality(present) = 1) =>
                 (Cardinality(ms) = 1 /\ ds = {})
            /\ Cardinality(holders) < 2 => (ms = {} /\ ds = {})
            /\ holders # {} =>
                 /\ Cardinality(cells) = 1
                 /\ \A cell \in cells :
                      /\ table[cell[1]].cells[cell[2]].hasDiscrepancy
                           <=> Cardinality(present) > 1
                      /\ table[cell[1]].cells[cell[2]].variance = Spread(present)

\* a report that holds a discrepancy between three documents, of which the
\* first holds the smallest value, and a match
C12_Witness ==
  /\ ReportHandedOver
  /\ \E k \in DOMAIN dashboard.report[1].discrepancies :
       LET d == dashboard.report[1].discrepancies[k]
       IN /\ Len(d.values) = 3
          /\ d.values[1].value < d.values[2].value
          /\ d.variance = 20000
  /\ dashboard.report[1].matches # <<>>

DocsWithFigures(list) ==
  {i \in DOMAIN list : list[i].extractedFigures # <<>>}

\* C14: when fewer than two documents of the list hold an extracted figure,
\* the report has no comparison and totalComparisons = 0, and so have the
\* exports.
C14_NoComparisonBelowTwo ==
  Cardinality(DocsWithFigures(analyses)) < 2 =>
    /\ report # <<>> =>
         /\ report[1].comparisons = <<>>
         /\ report[1].summary.totalComparisons = 0
         /\ report[1].summary.consistentCount = 0
         /\ report[1].summary.discrepancyCount = 0
    /\ download # <<>> =>
         /\ download.comparisons = <<>>
         /\ download.kind = "txt" => download.content.totalComparisons = 0
         /\ download.kind = "csv" => download.content.rows = <<>>

\* the report of a single document that holds figures was rendered and
\* exported
C14_Witness ==
  /\ Len(analyses) = 1
  /\ Len(analyses[1].extractedFigures) >= 2
  /\ report # <<>>
  /\ download # <<>>
  /\ download.kind = "csv"

\* what a comparison says about its pair, apart from the values mapping
PairsOf(comparisons) ==
  [k \in DOMAIN comparisons |->
     [field |-> comparisons[k].field, year |-> comparisons[k].year,
      consistent |-> comparisons[k].consistent]]
CountsOf(summary) ==
  <<summary.totalComparisons, summary.consistentCount, summary.discrepancyCount>>

\* C15 as stated: a document without figures contributes nothing: the
\* report of the list has the pairs, the consistent flags and the counts of
\* the report of the list without that document, and the entry of the
\* document in the values mapping of every comparison is null.
C15_EmptyDocumentContributesNothing ==
  report # <<>> =>
    \A i \in DOMAIN analyses :
      analyses[i].extractedFigures = <<>> =>
        LET rest == Without(analyses, i)
        IN /\ PairsOf(report[1].comparisons) = PairsOf(Comparisons(rest))
           /\ CountsOf(report[1].summary) = CountsOf(Summary(Comparisons(rest)))
           /\ report[1].documentAnalyses[i] = analyses[i]
           /\ \A k \in DOMAIN report[1].comparisons :
                \A e \in DOMAIN report[1].comparisons[k].values :
                  report[1].comparisons[k].values[e].doc = analyses[i].fileName
                    => ~report[1].comparisons[k].values[e].present

\* C16 as stated: document names are unique within a session: no two files
\* of the upload list share a name, and no two analyses handed to the
\* comparator share a fileName.
C16_NamesUnique ==
  /\ \A i, j \in DOMAIN files : i # j => files[i].name # files[j].name
  /\ \A i, j \in DOMAIN analyses :
       i # j => analyses[i].fileName # analyses[j].fileName

\* C17 as stated: every figure emitted by the figure extractor, in either
\* variant, has a strictly positive value: the figures of the engine's
\* analyses and the figures the dashboard collected per document are all
\* greater than zero.
C17_PositiveValues ==
  /\ \A i \in DOMAIN analyses :
       \A j \in DOMAIN analyses[i].extractedFigures :
         analyses[i].extractedFigures[j].value > 0
  /\ \A i \in DOMAIN dashboard.allExtractedData :
       \A j \in DOMAIN dashboard.allExtractedData[i].figures :
         dashboard.allExtractedData[i].figures[j].value > 0

\* C18 as stated: the consistencyScore of a report the dashboard produced is
\* matchCount / (matchCount + discrepancyCount) * 100 when there is at least
\* one comparison, and a guarded value (0 or undefined, never the NaN of
\* 0 / 0) when both counts are 0; it is a number between 0 and 100.
C18_ScoreGuarded ==
  dashboard.report # <<>> =>
    LET summary == dashboard.report[1].summary
        score == summary.consistencyScore
        total == summary.matchCount + summary.discrepancyCount
    IN /\ ~score.nan
       /\ total > 0 => score.num * total = summary.matchCount * 100 * score.den
       /\ total = 0 => score.num = 0
       /\ 0 <= score.num /\ score.num <= 100 * score.den

\* the titles of the batch-level notification
BatchTitles ==
  {"Analysis Failed", "Analysis Partially Complete", "Analysis Complete"}

\* the number of results with the given status
StatusCount(results, status) ==
  Cardinality({i \in DOMAIN results : results[i].extractionStatus = status})

\* a step that calls onAnalysisComplete
CompletionStep == completeCalls' = completeCalls + 1

\* C19: exactly one batch-level notification is issued per batch, by the step
\* that completes it, when each of the n files has its result; its counts
\* add up to n; its title is 'Analysis Failed' iff no document is success or
\* partial, 'Analysis Partially Complete' iff at least one document failed
\* and at least one did not, 'Analysis Complete' iff no document failed.
C19_OneBatchNotification ==
  /\ [](completeCalls <= 1 /\ (state = "report" <=> completeCalls = 1))
  /\ [][/\ (toast' \in BatchTitles /\ toast' # toast) <=> CompletionStep
        /\ CompletionStep =>
             LET n == Len(files)
                 failed == StatusCount(analyses', "failed")
                 success == StatusCount(analyses', "success")
                 partial == StatusCount(analyses', "partial")
             IN /\ runs' = <<>>
                /\ Len(analyses') = n
                /\ \A i \in 1..n : analyses'[i].fileName = files[i].name
                /\ success + partial + failed = n
                /\ toast' = "Analysis Failed" <=> success + partial = 0
                /\ toast' = "Analysis Partially Complete" <=>
                     (failed > 0 /\ failed < n)
                /\ toast' = "Analysis Complete" <=> failed = 0]_vars

\* a batch of two documents ended with one failed and one successful
\* document and the partial notification
C19_Witness ==
  /\ state = "report"
  /\ completeCalls = 1
  /\ toast = "Analysis Partially Complete"
  /\ Len(analyses) = 2
  /\ analyses[1].extractionStatus = "failed"
  /\ analyses[2].extractionStatus = "success"

\* the indices of the figures that repeat the (field, year) of an earlier
\* figure of the same document
LaterDuplicates(figs) ==
  {j \in DOMAIN figs :
     \E k \in 1..(j - 1) : figs[k].label = figs[j].label /\ figs[k].year = figs[j].year}

\* the figures without those at the indices of S
DropFigures(figs, S) ==
  LET idx == SeqFilterIdx([j \in DOMAIN figs |-> j \notin S], 1, Len(figs))
  IN [k \in DOMAIN idx |-> figs[idx[k]]]

\* the figures with the value v at the indices of S
RevalueFigures(figs, S, v) ==
  [j \in DOMAIN figs |-> IF j \in S THEN [figs[j] EXCEPT !.value = v] ELSE figs[j]]

\* values to give to later duplicates: one that another document holds for
\* Revenue 2024, and one that no document holds
PerturbedValues == {100000, 700}

\* the lists that differ from list in the later duplicates of one document
\* only: some of them removed, or given another value
LaterDuplicatesPerturbed(list) ==
  UNION {
    LET figs == list[i].extractedFigures
    IN UNION {
         {[list EXCEPT ![i].extractedFigures = DropFigures(figs, S)]}
         \cup {[list EXCEPT ![i].extractedFigures = RevalueFigures(figs, S, v)] :
                 v \in PerturbedValues}
         : S \in (SUBSET LaterDuplicates(figs)) \ {{}}}
    : i \in DOMAIN list}

\* the entry a document contributes to the comparison of (field, year): the
\* value of the first of its figures with that field and year
FirstMatchEntry(analysis, field, year) ==
  LET figs == analysis.extractedFigures
      first == {j \in DOMAIN figs :
                  /\ figs[j].label = field /\ figs[j].year = year
                  /\ \A k \in 1..(j - 1) :
                       ~(figs[k].label = field /\ figs[k].year = year)}
  IN IF first = {} THEN [doc |-> analysis.fileName, present |-> FALSE, value |-> 0]
     ELSE [doc |-> analysis.fileName, present |-> TRUE,
           value |-> figs[CHOOSE j \in first : TRUE].value]

\* C20: first match wins. In every comparison of the rendered report the
\* entry of a document (the last analysis of its name) holds the value of the
\* first figure of that (field, year) in its extractedFigures; removing later
\* figures of the same (field, year), or changing their values, changes
\* neither the comparisons (values, consistent flags) nor the summary counts
\* of the report, nor the comparisons of the export.
C20_FirstMatchWins ==
  /\ report # <<>> =>
       /\ \A c \in DOMAIN report[1].comparisons :
            \A i \in DOMAIN analyses :
              (\A l \in (i + 1)..Len(analyses) :
                 analyses[l].fileName # analyses[i].fileName) =>
                \E e \in DOMAIN report[1].comparisons[c].values :
                  report[1].comparisons[c].values[e] =
                    FirstMatchEntry(analyses[i], report[1].comparisons[c].field,
                                    report[1].comparisons[c].year)
       /\ \A list \in LaterDuplicatesPerturbed(analyses) :
            /\ Report(list).comparisons = report[1].comparisons
            /\ Report(list).summary = report[1].summary
  /\ download # <<>> =>
       \A list \in LaterDuplicatesPerturbed(analyses) :
         generateComparisons(list) = download.comparisons

\* a rendered report compares Revenue 2024 over a document whose figures
\* hold it three times (1,200.00, then 900, then 1,200.00) and a document
\* with 1,000: the first document's entry is 1,200.00 and the pair is
\* flagged inconsistent
C20_Witness ==
  /\ report # <<>>
  /\ Len(analyses) = 2
  /\ analyses[1].fileName # analyses[2].fileName
  /\ Cardinality(LaterDuplicates(analyses[1].extractedFigures)) = 2
  /\ \E c \in DOMAIN report[1].comparisons :
       /\ report[1].comparisons[c].field = "Revenue"
       /\ report[1].comparisons[c].year = 2024
       /\ ~report[1].comparisons[c].consistent
       /\ report[1].comparisons[c].values[1].value = 120000
       /\ report[1].comparisons[c].values[2].value = 100000

\* the character offsets at which the year occurs in the text
OccurrenceOffsets(text, year) ==
  {CharOffset(text, p) : p \in {q \in DOMAIN text :
                                  IsYearAt(text, q) /\ YearAt(text, q) = year}}

\* the distance from offset m to the nearest occurrence of the year
NearestDistance(text, year, m) ==
  LET distances == {AbsDiff(o, m) : o \in OccurrenceOffsets(text, year)}
  IN CHOOSE d \in distances : \A e \in distances : d <= e

\* the candidate years with an occurrence less than YearMaxDistance
\* characters from offset m
CandidatesInRange(text, m) ==
  LET years == FoundYears(text)
  IN {years[i] : i \in {j \in DOMAIN years :
                          /\ OccurrenceOffsets(text, years[j]) # {}
                          /\ NearestDistance(text, years[j], m) < YearMaxDistance}}

\* the offset of the match of a layout text: that of its label
LabelOffset(text) ==
  CharOffset(text, CHOOSE p \in DOMAIN text : text[p] = W("Revenue"))

\* C21 as stated: the year attributed to a match at offset M is the
\* candidate whose nearest occurrence to M is closest among the candidates
\* with an occurrence within 300 characters of M, and the first candidate in
\* order of first appearance only when no candidate is within range.
C21_NearestYearAttributed ==
  extraction.pc = "returned" =>
    \A j \in DOMAIN extraction.figures :
      LET text == extraction.text
          m == LabelOffset(text)
          inRange == CandidatesInRange(text, m)
          year == extraction.figures[j].year
      IN IF inRange # {}
         THEN /\ year \in inRange
              /\ \A y \in inRange :
                   NearestDistance(text, year, m) <= NearestDistance(text, y, m)
         ELSE year = FoundYears(text)[1]

\* C22: when the text holds a single candidate year and it occurs less than
\* 300 characters from the match, the figure is attributed to that year; when
\* no candidate year occurs within 300 characters of the match, the figure is
\* attributed to the first-found candidate year.
C22_SingleYearOrFirstFound ==
  extraction.pc = "returned" =>
    \A j \in DOMAIN extraction.figures :
      LET text == extraction.text
          m == LabelOffset(text)
          years == FoundYears(text)
          year == extraction.figures[j].year
      IN /\ (/\ Len(years) = 1
             /\ \E o \in OccurrenceOffsets(text, years[1]) :
                  AbsDiff(o, m) < YearMaxDistance)
            => year = years[1]
         /\ CandidatesInRange(text, m) = {} => year = years[1]

\* a figure was extracted from a text with two candidate years, both further
\* than 300 characters from the match, and carries the first of them
C22_Witness ==
  /\ extraction.pc = "returned"
  /\ Len(extraction.figures) = 1
  /\ Len(FoundYears(extraction.text)) = 2
  /\ OccurrenceOffsets(extraction.text, FoundYears(extraction.text)[2]) # {}
  /\ CandidatesInRange(extraction.text, LabelOffset(extraction.text)) = {}
  /\ extraction.figures[1].year = FoundYears(extraction.text)[1]

\* the figures of all the analyses of a list, document after document
RECURSIVE AllFigures(_, _)
AllFigures(list, i) ==
  IF i > Len(list) THEN <<>>
  ELSE list[i].extractedFigures \o AllFigures(list, i + 1)

\* where a field, and where a year, is first seen among those figures
FieldFirstSeen(list, field) ==
  LET figs == AllFigures(list, 1)
  IN CHOOSE k \in DOMAIN figs :
       figs[k].label = field /\ \A l \in 1..(k - 1) : figs[l].label # field

YearFirstSeen(list, year) ==
  LET figs == AllFigures(list, 1)
  IN CHOOSE k \in DOMAIN figs :
       figs[k].year = year /\ \A l \in 1..(k - 1) : figs[l].year # year

\* comparison a comes before comparison b in discovery order: fields in
\* first-seen order, then years in first-seen order
DiscoveredBefore(list, a, b) ==
  \/ FieldFirstSeen(list, a.field) < FieldFirstSeen(list, b.field)
  \/ /\ a.field = b.field
     /\ YearFirstSeen(list, a.year) < YearFirstSeen(list, b.year)

\* the inconsistent comparisons that come before comparison c in discovery
\* order
DiscrepanciesBefore(list, comparisons, c) ==
  {k \in DOMAIN comparisons :
     ~comparisons[k].consistent /\ DiscoveredBefore(list, comparisons[k], c)}

\* key holds exactly min(cap, number of discrepancies) summaries, and its
\* k-th summary is that of the inconsistent comparison with k - 1
\* inconsistent comparisons before it in discovery order
FirstDiscrepancies(list, comparisons, key, cap) ==
  LET discrepancies == {k \in DOMAIN comparisons : ~comparisons[k].consistent}
      count == Cardinality(discrepancies)
  IN /\ Len(key) = IF count < cap THEN count ELSE cap
     /\ \A k \in DOMAIN key :
          \E c \in discrepancies :
            /\ Cardinality(DiscrepanciesBefore(list, comparisons, comparisons[c]))
                 = k - 1
            /\ key[k].field = comparisons[c].field
            /\ key[k].year = comparisons[c].year
            /\ key[k].docValues = SelectSeq(comparisons[c].values,
                                            LAMBDA e : e.present)

\* C23: keyDiscrepancies holds exactly min(5, discrepancyCount) summaries in
\* the on-screen report and min(10, discrepancyCount) lines in the text
\* export, and they are the first inconsistent comparisons in discovery
\* order (fields in first-seen order, then years in first-seen order),
\* whatever the size of the differences.
C23_KeyDiscrepanciesFirstFound ==
  /\ report # <<>> =>
       /\ report[1].summary.discrepancyCount
            = Cardinality({k \in DOMAIN report[1].comparisons :
                             ~report[1].comparisons[k].consistent})
       /\ FirstDiscrepancies(analyses, report[1].comparisons,
                             report[1].summary.keyDiscrepancies, 5)
  /\ (download # <<>> /\ download.kind = "txt") =>
       /\ download.content.discrepancyCount
            = Cardinality({k \in DOMAIN download.comparisons :
                             ~download.comparisons[k].consistent})
       /\ FirstDiscrepancies(analyses, download.comparisons,
                             download.content.keyDiscrepancies, 10)

\* the report is on screen and the text export was made for two documents
\* that differ on twelve (field, year) pairs, the largest differences last:
\* five summaries on screen, ten lines in the export
C23_Witness ==
  /\ report # <<>>
  /\ download # <<>>
  /\ download.kind = "txt"
  /\ report[1].summary.discrepancyCount = 12
  /\ Len(report[1].summary.keyDiscrepancies) = 5
  /\ Len(download.content.keyDiscrepancies) = 10
  /\ report[1].comparisons[1].values[2].value
       < report[1].comparisons[12].values[2].value

\* the categories of the comparator
ComparatorCategories ==
  {"Income Statement", "Balance Sheet", "Cash Flow Statement"}

\* C24: consistentSections lists, without duplicates, exactly the categories
\* that have at least one consistent comparison; a category whose
\* comparisons are all inconsistent, or that has no comparison, is not
\* listed.
C24_ConsistentSectionsExact ==
  report # <<>> =>
    LET sections == report[1].summary.consistentSections
        comparisons == report[1].comparisons
    IN /\ \A i, j \in DOMAIN sections : i # j => sections[i] # sections[j]
       /\ \A category \in ComparatorCategories :
            (\E i \in DOMAIN sections : sections[i] = category)
            <=> (\E k \in DOMAIN comparisons :
                   /\ comparisons[k].consistent
                   /\ comparisons[k].category = category)
       /\ \A i \in DOMAIN sections : sections[i] \in ComparatorCategories

\* the income statement has several consistent comparisons and the balance
\* sheet only inconsistent ones: the income statement is listed once, the
\* balance sheet is not
C24_Witness ==
  /\ report # <<>>
  /\ report[1].summary.consistentSections = <<"Income Statement">>
  /\ Cardinality({k \in DOMAIN report[1].comparisons :
                    /\ report[1].comparisons[k].consistent
                    /\ report[1].comparisons[k].category = "Income Statement"}) > 1
  /\ \E k \in DOMAIN report[1].comparisons :
       report[1].comparisons[k].category = "Balance Sheet"

\* C25 as stated: in the report of AnalysisDashboard a document for which
\* both extractFromUrl and extractFromBlob raised (and whose name no other
\* file shares) has no figures, and no match or discrepancy names it.
C25_NoFiguresWithoutExtractedText ==
  dashboard.report # <<>> =>
    \A i \in dashboard.sampled :
      (\A j \in DOMAIN files : j # i => files[j].name # files[i].name) =>
        LET handed == dashboard.report[1]
            name == files[i].name
        IN /\ \A e \in DOMAIN handed.extractedFigures :
                handed.extractedFigures[e].docName = name =>
                  handed.extractedFigures[e].figures = <<>>
           /\ \A m \in DOMAIN handed.matches :
                \A k \in DOMAIN handed.matches[m].documents :
                  handed.matches[m].documents[k] # name
           /\ \A d \in DOMAIN handed.discrepancies :
                \A k \in DOMAIN handed.discrepancies[d].values :
                  handed.discrepancies[d].values[k].documentName # name

\* C26: the app is in the analyzing state, and a batch is started or running,
\* only while the file list holds at least 2 files; a request for analysis
\* with fewer than 2 files leaves the app in the upload state, with the same
\* files, and starts no batch.
C26_AnalyzingNeedsTwoFiles ==
  /\ [](state = "analyzing" => Len(files) >= 2)
  /\ [](runs # <<>> => (state = "analyzing" /\ Len(files) >= 2))
  /\ [][/\ Len(runs') > Len(runs) => Len(files) >= 2
        /\ (state = "upload" /\ Len(files) < 2 /\ files' = files) =>
             (state' = "upload" /\ runs' = <<>>)
        /\ (toast' = "Insufficient Documents" /\ toast # toast') =>
             (/\ Len(files) < 2
              /\ state' = "upload"
              /\ files' = files
              /\ runs' = <<>>)]_vars

\* analysis was requested with a single file in the list: the app stayed on
\* the upload screen and no batch runs
C26_Witness ==
  /\ toast = "Insufficient Documents"
  /\ state = "upload"
  /\ Len(files) = 1
  /\ runs = <<>>

\* C27: whenever the app is in the report state its analyses correspond one
\* to one and in order to the current file list; start-over empties files
\* and analyses and returns to the upload state, and outside the report
\* state no analyses are held, so that a report never shows a result of an
\* earlier batch.
C27_ReportMatchesFiles ==
  /\ [](state = "report" =>
          /\ Len(analyses) = Len(files)
          /\ \A i \in DOMAIN analyses : analyses[i].fileName = files[i].name)
  /\ [](state # "report" => analyses = <<>>)
  /\ [][(state = "report" /\ state' # "report") =>
          (state' = "upload" /\ files' = <<>> /\ analyses' = <<>>)]_vars

\* the report of a batch over three files is shown: three analyses, the
\* third named after the third file, not all of the same status
C27_Witness ==
  /\ state = "report"
  /\ Len(files) = 3
  /\ Len(analyses) = 3
  /\ analyses[3].fileName = files[3].name
  /\ analyses[1].extractionStatus # analyses[3].extractionStatus

\* C28: the comparisons the text and CSV exports are written from are those
\* of the on-screen report, in the same order and with the same year, field,
\* category, values and consistent flag, and the export's consistent and
\* discrepancy counts are the on-screen summary counts.
C28_ExportMatchesScreen ==
  (report # <<>> /\ download # <<>>) =>
    LET shown == report[1].comparisons
        summary == report[1].summary
    IN /\ download.comparisons = shown
       /\ download.kind = "txt" =>
            /\ download.content.totalComparisons = summary.totalComparisons
            /\ download.content.consistentCount = summary.consistentCount
            /\ download.content.discrepancyCount = summary.discrepancyCount
       /\ download.kind = "csv" =>
            /\ Len(download.content.rows) = Len(shown)
            /\ \A k \in DOMAIN shown :
                 /\ download.content.rows[k].year = shown[k].year
                 /\ download.content.rows[k].field = shown[k].field
                 /\ download.content.rows[k].category = shown[k].category
                 /\ download.content.rows[k].consistent = shown[k].consistent

\* the report on screen holds a consistent Balance Sheet comparison and an
\* inconsistent Income Statement comparison, and the CSV export was made
C28_Witness ==
  /\ report # <<>>
  /\ download # <<>>
  /\ download.kind = "csv"
  /\ \E k \in DOMAIN report[1].comparisons :
       /\ report[1].comparisons[k].category = "Balance Sheet"
       /\ report[1].comparisons[k].consistent
  /\ \E k \in DOMAIN report[1].comparisons :
       /\ report[1].comparisons[k].category = "Income Statement"
       /\ ~report[1].comparisons[k].consistent

\* errorMessage is defined iff the status is not success, and a failed or
\* partial analysis holds no figures
WellFormedAnalysis(analysis) ==
  /\ analysis.extractionStatus \in {"success", "partial", "failed"}
  /\ Len(analysis.errorMessage) = 1 <=> analysis.extractionStatus # "success"
  /\ analysis.extractionStatus \in {"failed", "partial"} =>
       analysis.extractedFigures = <<>>
  /\ analysis.extractionStatus = "success" => analysis.extractedFigures # <<>>

\* the positions of a run inside analyzeDocument
InsideAnalyzeDocument == {"upload", "delay", "url", "blob"}

\* C29: every DocumentAnalysis returned by analyzeDocument has errorMessage
\* defined iff extractionStatus is not success and no figures when the status
\* is failed or partial; analyzeDocument never raises: whatever a
\* collaborator call does, the run goes on inside analyzeDocument or gets
\* the analysis of the file it was working on.
C29_AnalysisWellFormed ==
  /\ [](\A r \in DOMAIN runs :
          \A k \in DOMAIN runs[r].results :
            /\ WellFormedAnalysis(runs[r].results[k])
            /\ runs[r].results[k].fileName = runs[r].files[k].name)
  /\ [](\A k \in DOMAIN analyses : WellFormedAnalysis(analyses[k]))
  /\ [][\A r \in DOMAIN runs :
          runs[r].pc \in InsideAnalyzeDocument =>
            /\ r \in DOMAIN runs'
            /\ runs'[r].i = runs[r].i
            /\ \/ /\ runs'[r].pc \in InsideAnalyzeDocument
                  /\ runs'[r].results = runs[r].results
               \/ /\ runs'[r].pc = "pause"
                  /\ Len(runs'[r].results) = Len(runs[r].results) + 1
                  /\ Len(runs'[r].results) = runs[r].i]_vars

\* a run holds a partial analysis, with its message, and after it the failed
\* analysis of a document for which a collaborator call raised
C29_Witness ==
  \E r \in Produced :
    /\ Len(runs[r].results) = 2
    /\ runs[r].results[1].extractionStatus = "partial"
    /\ Len(runs[r].results[1].errorMessage) = 1
    /\ AnyRaised(runs[r].calls)
    /\ runs[r].results[2].extractionStatus = "failed"
    /\ Len(runs[r].results[2].errorMessage) = 1

\* progress a is at most progress b, both as <<numerator, denominator>>
ProgressAtMost(a, b) == a[1] * b[2] <= b[1] * a[2]

ProgressFull == progress[1] = 100 * progress[2]

\* while the engine stays on screen the progress never goes down
ProgressNonDecreasing ==
  [][Mounted /\ Mounted' => ProgressAtMost(progress, progress')]_vars

\* while the engine stays on screen currentStep stays or goes up by one, and
\* is the position of a file of the batch once the batch began
StepsInOrder ==
  [][Mounted /\ Mounted' =>
       /\ currentStep' \in {currentStep, currentStep + 1}
       /\ currentStep' \in 0..Len(files)]_vars

\* no run is inside analyzeDocument while the engine shows 100%
FullOnlyWhenSettled ==
  [][Mounted' /\ ProgressFull' =>
       \A r \in DOMAIN runs' : runs'[r].pc \notin InsideAnalyzeDocument]_vars

\* C30: during a batch over n files the reported progress is non-decreasing,
\* currentStep takes the values 1..n in order, and the progress shows 100%
\* only once every document's analysis has completed, never while a document
\* is still being uploaded or extracted.
C30_ProgressAsStated ==
  /\ ProgressNonDecreasing
  /\ StepsInOrder
  /\ FullOnlyWhenSettled

====
